---- MODULE Spec2Model ----
(***************************************************************************)
(* A model of the Pico BLE MIDI looper (src/src/main.c, tap_tempo.c,       *)
(* button.c, ble_midi.c): the sequencer engine driven by the step timer,   *)
(* the main polling loop that classifies the button and routes its events, *)
(* and the tap-tempo estimator.                                            *)
(*                                                                         *)
(* Time is the microsecond clock time_us_64(); `now` is its value.  A      *)
(* handler runs atomically at the instant `now`.  The status LED and the   *)
(* serial display are outputs only and are left out.                       *)
(***************************************************************************)
EXTENDS Integers, FiniteSets, Sequences, TLC

(***************************************************************************)
(* Program constants                                                       *)
(***************************************************************************)
LOOPER_DEFAULT_BPM == 120
LOOPER_BARS == 2
LOOPER_BEATS_PER_BAR == 4
LOOPER_STEPS_PER_BEAT == 4
LOOPER_TOTAL_STEPS == LOOPER_STEPS_PER_BEAT * LOOPER_BEATS_PER_BAR * LOOPER_BARS
LOOPER_CLICK_DIV == (LOOPER_TOTAL_STEPS \div LOOPER_BARS) \div LOOPER_STEPS_PER_BEAT
NUM_TRACKS == 4

BASS_DRUM == 36
RIM_SHOT == 37
SNARE_DRUM == 38
HAND_CLAP == 39
CLOSED_HIHAT == 42
OPEN_HIHAT == 46

TAP_MIN_BPM == 40
TAP_MAX_BPM == 240
TAP_MAX_TAPS == 4
TIMEOUT_US == 1000 * 1000

BUTTON_DEBOUNCE_COUNT == 10
PRESS_DURATION_US == 500 * 1000
LONG_PRESS_DURATION_US == 2000 * 1000
VERY_LONG_PRESS_DURATION_US == 5000 * 1000

LOOPER_STATE_WAITING == "WAITING"
LOOPER_STATE_PLAYING == "PLAYING"
LOOPER_STATE_RECORDING == "RECORDING"
LOOPER_STATE_TRACK_SWITCH == "TRACK_SWITCH"
LOOPER_STATE_TAP_TEMPO == "TAP_TEMPO"
LOOPER_STATE_CLEAR_ALL == "CLEAR_ALL"
LooperStates ==
    {LOOPER_STATE_WAITING, LOOPER_STATE_PLAYING, LOOPER_STATE_RECORDING,
     LOOPER_STATE_TRACK_SWITCH, LOOPER_STATE_TAP_TEMPO, LOOPER_STATE_CLEAR_ALL}

BUTTON_EVENT_NONE == "NONE"
BUTTON_EVENT_DOWN == "DOWN"
BUTTON_EVENT_CLICK_RELEASE == "CLICK_RELEASE"
BUTTON_EVENT_HOLD_BEGIN == "HOLD_BEGIN"
BUTTON_EVENT_HOLD_RELEASE == "HOLD_RELEASE"
BUTTON_EVENT_LONG_HOLD_BEGIN == "LONG_HOLD_BEGIN"
BUTTON_EVENT_LONG_HOLD_RELEASE == "LONG_HOLD_RELEASE"
BUTTON_EVENT_VERY_LONG_HOLD_BEGIN == "VERY_LONG_HOLD_BEGIN"
BUTTON_EVENT_VERY_LONG_HOLD_RELEASE == "VERY_LONG_HOLD_RELEASE"
ButtonEvents ==
    {BUTTON_EVENT_NONE, BUTTON_EVENT_DOWN, BUTTON_EVENT_CLICK_RELEASE,
     BUTTON_EVENT_HOLD_BEGIN, BUTTON_EVENT_HOLD_RELEASE,
     BUTTON_EVENT_LONG_HOLD_BEGIN, BUTTON_EVENT_LONG_HOLD_RELEASE,
     BUTTON_EVENT_VERY_LONG_HOLD_BEGIN, BUTTON_EVENT_VERY_LONG_HOLD_RELEASE}

BeginEvents ==
    {BUTTON_EVENT_HOLD_BEGIN, BUTTON_EVENT_LONG_HOLD_BEGIN, BUTTON_EVENT_VERY_LONG_HOLD_BEGIN}
ReleaseEvents ==
    {BUTTON_EVENT_CLICK_RELEASE, BUTTON_EVENT_HOLD_RELEASE, BUTTON_EVENT_LONG_HOLD_RELEASE,
     BUTTON_EVENT_VERY_LONG_HOLD_RELEASE}

BUTTON_STATE_IDLE == "IDLE"
BUTTON_STATE_PRESS_DOWN == "PRESS_DOWN"
BUTTON_STATE_HOLD_ACTIVE == "HOLD_ACTIVE"
BUTTON_STATE_LONG_HOLD_ACTIVE == "LONG_HOLD_ACTIVE"
BUTTON_STATE_VERY_LONG_HOLD_ACTIVE == "VERY_LONG_HOLD_ACTIVE"

TAP_NONE == "TAP_NONE"
TAP_PRELIM == "TAP_PRELIM"
TAP_FINAL == "TAP_FINAL"
TAP_EXIT == "TAP_EXIT"

TT_IDLE == "TT_IDLE"
TT_COLLECT == "TT_COLLECT"

HCI_CON_HANDLE_INVALID == "INVALID"
CON_HANDLE == "HANDLE"

Tracks == 0 .. (NUM_TRACKS - 1)
Steps == 0 .. (LOOPER_TOTAL_STEPS - 1)
EmptyPatterns == [pattern |-> {}, undo_pattern |-> {}]

(***************************************************************************)
(* State                                                                   *)
(***************************************************************************)
VARIABLES
    looper_status,   \* main.c looper_status: bpm, step_duration_ms, state, current_track,
                     \*   current_step, recording_step_count, timing
    tracks,          \* main.c tracks[]: pattern and undo_pattern, each the set of steps set
    ctx,             \* tap_tempo.c ctx: state, stamp[0..3], count
    latest_bpm,      \* tap_tempo.c latest_bpm
    fsm,             \* button.c fsm: state, press_start_us
    counter,         \* button.c debounce counter
    stable_state,    \* button.c debounced button state
    con_handle,      \* ble_midi.c con_handle
    step_timer,      \* ble_midi.c step_timer: the time (us) at which it fires
    now,             \* time_us_64()
    raw_button,      \* what bootsel_button_raw() reads
    event,           \* main(): the event of the latest loop iteration at this instant
    tap_result,      \* main(): what taptempo_handle_button_event returned in it
    quantized_step,  \* looper_handle_button_event: the index it wrote last
    midi_out,        \* the notes the latest handler at this instant gave the transport
    div0,            \* calc_bpm has divided by zero
    polled,          \* the main loop has run since the clock last moved
    inputs,          \* how many button inputs the environment has given
    conn_changes,    \* how often the link came up or went down
    press,           \* history: the track, its pattern and the looper state at the latest DOWN
    taps,            \* history: the times of the CLICK_RELEASE events given to the estimator
    handler,         \* looper_handle_button_event: where the main loop is in it, what it has read
    emitted,         \* history: the events button_poll_event returned since the latest DOWN
    reads            \* history: the level of the latest raw reads and how many agreed in a row

vars ==
    <<looper_status, tracks, ctx, latest_bpm, fsm, counter, stable_state, con_handle,
      step_timer, now, raw_button, event, tap_result, quantized_step, midi_out, div0,
      polled, inputs, conn_changes, press, taps, handler, emitted, reads>>

engine_vars == <<looper_status, tracks, quantized_step>>
tap_vars == <<ctx, latest_bpm, div0>>
poll_hist == <<emitted, reads>>
button_vars == <<fsm, counter, stable_state>>
loop_vars == <<event, tap_result, midi_out>>

(***************************************************************************)
(* C arithmetic                                                            *)
(***************************************************************************)
\* a % n of C for n > 0: the remainder has the sign of a.
CRem(a, n) == IF a >= 0 THEN a % n ELSE -((-a) % n)

\* (uint8_t)x
ToUint8(x) == x % 256

\* round(num / den) of <math.h> for den > 0: nearest, halves away from zero.
CRound(num, den) ==
    IF num >= 0 THEN (2 * num + den) \div (2 * den)
                ELSE -((2 * (-num) + den) \div (2 * den))

(***************************************************************************)
(* Transport (ble_midi.c)                                                  *)
(***************************************************************************)
\* Variant with the test inverted.
ble_midi_is_connected_inverted == con_handle = HCI_CON_HANDLE_INVALID

ble_midi_is_connected == con_handle # HCI_CON_HANDLE_INVALID

\* The notes that reach the link: none while it is down.
ble_midi_send_note(note) == IF ble_midi_is_connected THEN {note} ELSE {}

TrackNote(i) ==
    CASE i = 0 -> BASS_DRUM
      [] i = 1 -> SNARE_DRUM
      [] i = 2 -> CLOSED_HIHAT
      [] OTHER -> OPEN_HIHAT

(***************************************************************************)
(* Sequencer engine (main.c)                                               *)
(***************************************************************************)
\* Variant that leaves the step duration of the tempo before.
looper_update_bpm_only(ls, new_bpm) == [ls EXCEPT !.bpm = new_bpm]

looper_update_bpm(ls, new_bpm) ==
    [ls EXCEPT !.bpm = new_bpm,
               !.step_duration_ms = 60000 \div (new_bpm * LOOPER_STEPS_PER_BEAT)]

\* Variant that clicks on every step.
send_click_if_needed_always(ls) == ble_midi_send_note(RIM_SHOT)

send_click_if_needed(ls) ==
    IF ls.current_step % LOOPER_CLICK_DIV = 0 THEN ble_midi_send_note(RIM_SHOT) ELSE {}

\* Variant that looks at the step after the current one.
looper_output_notes_after_advance(ls, tr) ==
    UNION {IF ((ls.current_step + 1) % LOOPER_TOTAL_STEPS) \in tr[i].pattern
              THEN ble_midi_send_note(TrackNote(i)) ELSE {} : i \in Tracks}

looper_output_notes(ls, tr) ==
    UNION {IF ls.current_step \in tr[i].pattern
              THEN ble_midi_send_note(TrackNote(i)) ELSE {} : i \in Tracks}

\* Variant that lets the step index run past the end of the loop.
looper_next_step_no_wrap(ls, now_us) ==
    [ls EXCEPT !.timing.last_step_time_us = now_us,
               !.current_step = @ + 1]

\* Variant that does not record when the step began.
looper_next_step_no_stamp(ls, now_us) ==
    [ls EXCEPT !.current_step = (@ + 1) % LOOPER_TOTAL_STEPS]

looper_next_step(ls, now_us) ==
    [ls EXCEPT !.timing.last_step_time_us = now_us,
               !.current_step = (@ + 1) % LOOPER_TOTAL_STEPS]

\* Variant that arms the timer for a time gone by.
looper_reset_step_timer_too_late(ls, start_us, end_us) == -ls.step_duration_ms

\* Variant without the floor of one millisecond.
looper_reset_step_timer_no_floor(ls, start_us, end_us) ==
    ls.step_duration_ms - ((end_us - start_us) \div 1000)

\* The delay (ms) the step timer is re-armed with.
looper_reset_step_timer(ls, start_us, end_us) ==
    LET handler_delay_ms == (end_us - start_us) \div 1000
    IN  IF handler_delay_ms >= ls.step_duration_ms
           THEN 1
           ELSE ls.step_duration_ms - handler_delay_ms

looper_quantize_step(ls) ==
    LET delta_us == ls.timing.button_press_start_us - ls.timing.last_step_time_us
        relative_steps == CRound(delta_us, 1000 * ls.step_duration_ms)
        previous_step ==
            ToUint8(CRem(ls.current_step + LOOPER_TOTAL_STEPS - 1, LOOPER_TOTAL_STEPS))
        estimated_step ==
            ToUint8(CRem(previous_step + relative_steps + LOOPER_TOTAL_STEPS,
                         LOOPER_TOTAL_STEPS))
    IN  estimated_step

\* Variant that clears the undo patterns too.
looper_clear_all_tracks_and_undo(tr) ==
    [i \in Tracks |-> [pattern |-> {}, undo_pattern |-> {}]]

\* Variant that clears the first track only.
looper_clear_all_tracks_first_only(tr) == [tr EXCEPT ![0].pattern = {}]

looper_clear_all_tracks(tr) == [i \in Tracks |-> [tr[i] EXCEPT !.pattern = {}]]

\* Layout of track_t on the 32-bit target: name (4 bytes), note, channel,
\* pattern[32] from byte 6, undo_pattern[32] from byte 38, padded to 72 bytes.
TRACK_SIZE == 72
PATTERN_OFFSET == 6
UNDO_OFFSET == PATTERN_OFFSET + LOOPER_TOTAL_STEPS

StoreOutcomes == {"layout", "elsewhere"}

\* track->pattern[j] = true.  An index outside the array is a store outside
\* the object: with the layout above it lands `j` bytes after the start of
\* the current track's pattern ("layout"), which may be a byte of a later
\* track's pattern or undo_pattern; under another layout it lands outside
\* the patterns ("elsewhere").
pattern_store(tr, t, j, ub) ==
    IF j < LOOPER_TOTAL_STEPS THEN [tr EXCEPT ![t].pattern = @ \cup {j}]
    ELSE IF ub = "elsewhere" THEN tr
    ELSE LET addr == TRACK_SIZE * t + PATTERN_OFFSET + j
             t2 == addr \div TRACK_SIZE
             off == addr % TRACK_SIZE
         IN  IF t2 \notin Tracks THEN tr
             ELSE IF off >= PATTERN_OFFSET /\ off < UNDO_OFFSET
                 THEN [tr EXCEPT ![t2].pattern = @ \cup {off - PATTERN_OFFSET}]
             ELSE IF off >= UNDO_OFFSET /\ off < UNDO_OFFSET + LOOPER_TOTAL_STEPS
                 THEN [tr EXCEPT ![t2].undo_pattern = @ \cup {off - UNDO_OFFSET}]
             ELSE tr

\* Variant that stays on the track it is on.
next_track_same(current_track) == current_track

\* (looper_status.current_track + 1) % NUM_TRACKS
next_track(current_track) == (current_track + 1) % NUM_TRACKS

\* Variant that goes on in the state it is in while the link is down.
wait_if_not_connected_never(ls, connection) == ls

\* if (!connection) looper_status.state = LOOPER_STATE_WAITING;
wait_if_not_connected(ls, connection) ==
    IF ~connection THEN [ls EXCEPT !.state = LOOPER_STATE_WAITING] ELSE ls

\* Variant that resets the step and goes on WAITING.
start_playing_step_only(ls) == [ls EXCEPT !.current_step = 0]

\* looper_status.state = LOOPER_STATE_PLAYING; looper_status.current_step = 0;
start_playing(ls) ==
    [ls EXCEPT !.state = LOOPER_STATE_PLAYING, !.current_step = 0]

\* Variant that never ends a recording.
recording_is_over_never(ls) == FALSE

\* Variant that ends a recording one step late.
recording_is_over_late(ls) == ls.recording_step_count > LOOPER_TOTAL_STEPS

\* The test that ends a recording.
recording_is_over(ls) == ls.recording_step_count >= LOOPER_TOTAL_STEPS

\* What one run of the tick handler leaves: the status, the tracks, the notes
\* sent and the delay (ms) the step timer is re-armed with.  start_us is the
\* time at its start, end_us the time read when the timer is re-armed.
looper_process_state(start_us, end_us) ==
    LET connection == ble_midi_is_connected
        ls0 == wait_if_not_connected(looper_status, connection)
        r == CASE ls0.state = LOOPER_STATE_WAITING ->
                    LET ls1 == IF connection THEN start_playing(ls0) ELSE ls0
                    IN  [ls |-> looper_next_step(ls1, start_us), tr |-> tracks,
                         out |-> {}]
               [] ls0.state = LOOPER_STATE_PLAYING ->
                    [ls |-> looper_next_step(ls0, start_us), tr |-> tracks,
                     out |-> send_click_if_needed(ls0) \cup looper_output_notes(ls0, tracks)]
               [] ls0.state = LOOPER_STATE_RECORDING ->
                    LET ls1 == looper_next_step(ls0, start_us)
                        ls2 == [ls1 EXCEPT !.recording_step_count = ToUint8(@ + 1)]
                        ls3 == IF recording_is_over(ls2)
                                  THEN [ls2 EXCEPT !.state = LOOPER_STATE_PLAYING]
                                  ELSE ls2
                    IN  [ls |-> ls3, tr |-> tracks,
                         out |-> send_click_if_needed(ls0) \cup looper_output_notes(ls0, tracks)]
               [] ls0.state = LOOPER_STATE_TRACK_SWITCH ->
                    LET ls1 == [ls0 EXCEPT !.current_track = next_track(@)]
                        ls2 == looper_next_step(ls1, start_us)
                    IN  [ls |-> [ls2 EXCEPT !.state = LOOPER_STATE_PLAYING], tr |-> tracks,
                         out |-> ble_midi_send_note(HAND_CLAP)]
               [] ls0.state = LOOPER_STATE_TAP_TEMPO ->
                    [ls |-> looper_next_step(ls0, start_us), tr |-> tracks,
                     out |-> send_click_if_needed(ls0)]
               [] OTHER ->  \* LOOPER_STATE_CLEAR_ALL
                    LET ls1 == [ls0 EXCEPT !.current_track = 0]
                        ls2 == looper_next_step(ls1, start_us)
                    IN  [ls |-> [ls2 EXCEPT !.state = LOOPER_STATE_PLAYING],
                         tr |-> looper_clear_all_tracks(tracks), out |-> {}]
    IN  [ls |-> r.ls, tr |-> r.tr, out |-> r.out,
         delay |-> looper_reset_step_timer(r.ls, start_us, end_us)]

\* What looper_handle_button_event leaves: the status, the tracks, the index
\* written (q) and the notes sent.  ub resolves a store outside the pattern.
looper_handle_button_event(ev, ub) ==
    LET t == looper_status.current_track
        keep == [ls |-> looper_status, tr |-> tracks, q |-> quantized_step, out |-> {}]
    IN  CASE ev = BUTTON_EVENT_DOWN ->
               [keep EXCEPT !.ls.timing.button_press_start_us = now,
                            !.tr[t].undo_pattern = tracks[t].pattern,
                            !.out = ble_midi_send_note(TrackNote(t))]
          [] ev = BUTTON_EVENT_CLICK_RELEASE ->
               LET start == looper_status.state # LOOPER_STATE_RECORDING
                   ls1 == IF start
                             THEN [looper_status EXCEPT
                                       !.recording_step_count = 0,
                                       !.state = LOOPER_STATE_RECORDING]
                             ELSE looper_status
                   tr1 == IF start THEN [tracks EXCEPT ![t].pattern = {}] ELSE tracks
                   q == looper_quantize_step(ls1)
               IN  [ls |-> ls1, tr |-> pattern_store(tr1, t, q, ub), q |-> q, out |-> {}]
          [] ev = BUTTON_EVENT_HOLD_RELEASE ->
               [keep EXCEPT !.tr[t].pattern = tracks[t].undo_pattern,
                            !.ls.state = LOOPER_STATE_TRACK_SWITCH]
          [] ev = BUTTON_EVENT_LONG_HOLD_RELEASE ->
               [keep EXCEPT !.ls.state = LOOPER_STATE_TAP_TEMPO,
                            !.out = ble_midi_send_note(HAND_CLAP)]
          [] ev = BUTTON_EVENT_VERY_LONG_HOLD_RELEASE ->
               [keep EXCEPT !.ls.state = LOOPER_STATE_CLEAR_ALL,
                            !.out = ble_midi_send_note(HAND_CLAP)]
          [] OTHER -> keep

(***************************************************************************)
(* Tap-tempo estimator (tap_tempo.c)                                       *)
(***************************************************************************)
\* The quotients a division by zero may leave: the target's dividers give
\* zero or all ones; any quotient above TAP_MAX_BPM is clamped alike.
DivOutcomes == {"zero", "ones"}
ABOVE_EVERY_BPM == 2147483647

\* calc_bpm divides by delta_ms, which is zero for 0 < delta_us < 500.
calc_bpm_divides_by_zero(first_us, last_us) ==
    LET delta_us == last_us - first_us
    IN  delta_us # 0 /\ (delta_us + 500) \div 1000 = 0

calc_bpm(first_us, last_us, intervals, ub) ==
    LET delta_us == last_us - first_us
        delta_ms == (delta_us + 500) \div 1000
        bpm == IF delta_ms = 0
                  THEN (IF ub = "zero" THEN 0 ELSE ABOVE_EVERY_BPM)
                  ELSE (60000 * intervals + delta_ms \div 2) \div delta_ms
    IN  IF delta_us = 0 THEN TAP_MIN_BPM
        ELSE IF bpm < TAP_MIN_BPM THEN TAP_MIN_BPM
        ELSE IF bpm > TAP_MAX_BPM THEN TAP_MAX_BPM
        ELSE bpm

\* What taptempo_handle_event leaves: the context, latest_bpm, the result and
\* whether calc_bpm divided by zero.  ub resolves that division.
taptempo_handle_event(ev, ub) ==
    LET leave == ev \in {BUTTON_EVENT_HOLD_RELEASE, BUTTON_EVENT_LONG_HOLD_RELEASE}
        keep == [ctx |-> ctx, latest_bpm |-> latest_bpm, result |-> TAP_NONE,
                 div0 |-> FALSE]
    IN  IF ctx.state = TT_IDLE THEN
            IF leave THEN [keep EXCEPT !.ctx.state = TT_IDLE, !.result = TAP_EXIT]
            ELSE IF ev = BUTTON_EVENT_CLICK_RELEASE
                THEN [keep EXCEPT !.ctx.count = 0, !.ctx.state = TT_COLLECT,
                                  !.ctx.stamp[0] = now]
            ELSE keep
        ELSE  \* TT_COLLECT
            IF leave THEN [keep EXCEPT !.ctx.state = TT_IDLE, !.result = TAP_EXIT]
            ELSE IF ctx.count # 0 /\ now - ctx.stamp[ctx.count - 1] > TIMEOUT_US
                THEN [keep EXCEPT !.ctx.count = 0, !.ctx.state = TT_IDLE]
            ELSE IF ev = BUTTON_EVENT_CLICK_RELEASE THEN
                LET room == ctx.count < TAP_MAX_TAPS
                    stamp1 == IF room THEN [ctx.stamp EXCEPT ![ctx.count] = now]
                                      ELSE ctx.stamp
                    count1 == IF room THEN ctx.count + 1 ELSE ctx.count
                    bpm1 == IF count1 >= 2
                               THEN calc_bpm(stamp1[0], stamp1[count1 - 1], count1 - 1, ub)
                               ELSE latest_bpm
                    d0 == count1 >= 2
                          /\ calc_bpm_divides_by_zero(stamp1[0], stamp1[count1 - 1])
                    ctx1 == [ctx EXCEPT !.stamp = stamp1, !.count = count1]
                IN  IF count1 = 2
                        THEN [ctx |-> ctx1, latest_bpm |-> bpm1, result |-> TAP_PRELIM,
                              div0 |-> d0]
                    ELSE IF count1 = 3
                        THEN [ctx |-> ctx1, latest_bpm |-> bpm1, result |-> TAP_FINAL,
                              div0 |-> d0]
                    ELSE IF count1 = TAP_MAX_TAPS
                        THEN [ctx |-> [ctx1 EXCEPT !.count = 0], latest_bpm |-> bpm1,
                              result |-> TAP_FINAL, div0 |-> d0]
                    ELSE [ctx |-> ctx1, latest_bpm |-> bpm1, result |-> TAP_NONE,
                          div0 |-> d0]
            ELSE keep

taptempo_get_bpm(r) == r.latest_bpm

\* What taptempo_handle_button_event (main.c) leaves of the status.
taptempo_handle_button_event(r) ==
    IF r.result \in {TAP_PRELIM, TAP_FINAL}
       THEN looper_update_bpm(looper_status, taptempo_get_bpm(r))
       ELSE looper_status

(***************************************************************************)
(* Button classifier (button.c)                                            *)
(***************************************************************************)
\* The counter and the stable state after one more raw read.
bootsel_button_debounce(raw) ==
    LET c == IF raw THEN (IF counter < BUTTON_DEBOUNCE_COUNT THEN counter + 1 ELSE counter)
                    ELSE (IF counter > 0 THEN counter - 1 ELSE counter)
    IN  [counter |-> c,
         stable_state |-> IF c = BUTTON_DEBOUNCE_COUNT THEN TRUE
                          ELSE IF c = 0 THEN FALSE
                          ELSE stable_state]

\* Variant that takes a hold of just the duration for a longer one.
held_at_least(held, duration_us) == held >= duration_us

\* now_us - fsm.press_start_us > duration_us
held_longer_than(held, duration_us) == held > duration_us

\* Variant that changes the state without a word.
fsm_to_silently(f, s, e) == [fsm |-> [f EXCEPT !.state = s], ev |-> BUTTON_EVENT_NONE]

\* Variant that knows one tier of hold only.
fsm_to_hold_only(f, s, e) ==
    IF e \in {BUTTON_EVENT_LONG_HOLD_BEGIN, BUTTON_EVENT_VERY_LONG_HOLD_BEGIN}
       THEN [fsm |-> [f EXCEPT !.state = BUTTON_STATE_HOLD_ACTIVE],
             ev |-> BUTTON_EVENT_HOLD_BEGIN]
       ELSE [fsm |-> [f EXCEPT !.state = s], ev |-> e]

\* fsm.state = s; ev = e;
fsm_to(f, s, e) == [fsm |-> [f EXCEPT !.state = s], ev |-> e]

\* The classifier's step for the debounced level current_down at now_us.
button_poll_event(current_down, now_us) ==
    LET held == now_us - fsm.press_start_us
        keep == [fsm |-> fsm, ev |-> BUTTON_EVENT_NONE]
        to(s, e) == fsm_to(fsm, s, e)
    IN  CASE fsm.state = BUTTON_STATE_IDLE ->
               IF current_down
                  THEN [fsm |-> [state |-> BUTTON_STATE_PRESS_DOWN,
                                 press_start_us |-> now_us],
                        ev |-> BUTTON_EVENT_DOWN]
                  ELSE keep
          [] fsm.state = BUTTON_STATE_PRESS_DOWN ->
               IF ~current_down THEN to(BUTTON_STATE_IDLE, BUTTON_EVENT_CLICK_RELEASE)
               ELSE IF held_longer_than(held, LONG_PRESS_DURATION_US)
                   THEN to(BUTTON_STATE_LONG_HOLD_ACTIVE, BUTTON_EVENT_LONG_HOLD_BEGIN)
               ELSE IF held_longer_than(held, PRESS_DURATION_US)
                   THEN to(BUTTON_STATE_HOLD_ACTIVE, BUTTON_EVENT_HOLD_BEGIN)
               ELSE keep
          [] fsm.state = BUTTON_STATE_HOLD_ACTIVE ->
               IF ~current_down THEN to(BUTTON_STATE_IDLE, BUTTON_EVENT_HOLD_RELEASE)
               ELSE IF held_longer_than(held, LONG_PRESS_DURATION_US)
                   THEN to(BUTTON_STATE_LONG_HOLD_ACTIVE, BUTTON_EVENT_LONG_HOLD_BEGIN)
               ELSE keep
          [] fsm.state = BUTTON_STATE_LONG_HOLD_ACTIVE ->
               IF ~current_down THEN to(BUTTON_STATE_IDLE, BUTTON_EVENT_LONG_HOLD_RELEASE)
               ELSE IF held_longer_than(held, VERY_LONG_PRESS_DURATION_US)
                   THEN to(BUTTON_STATE_VERY_LONG_HOLD_ACTIVE,
                           BUTTON_EVENT_VERY_LONG_HOLD_BEGIN)
               ELSE keep
          [] OTHER ->  \* BUTTON_STATE_VERY_LONG_HOLD_ACTIVE
               IF ~current_down
                  THEN to(BUTTON_STATE_IDLE, BUTTON_EVENT_VERY_LONG_HOLD_RELEASE)
                  ELSE keep

(***************************************************************************)
(* The handlers as steps                                                   *)
(***************************************************************************)
\* Variant that leaves tap-tempo mode whatever the estimator returned.
leave_tap_tempo_always(ls, result) == [ls EXCEPT !.state = LOOPER_STATE_PLAYING]

\* Variant that stays in tap-tempo mode.
leave_tap_tempo_never(ls, result) == ls

\* if (... == TAP_EXIT) looper_status.state = LOOPER_STATE_PLAYING;
leave_tap_tempo(ls, result) ==
    IF result = TAP_EXIT THEN [ls EXCEPT !.state = LOOPER_STATE_PLAYING] ELSE ls

\* The body of main()'s loop for the event ev: the tap estimator while the
\* state is TAP_TEMPO, the engine otherwise.
main_dispatch(ev, ub_store, ub_div) ==
    /\ event' = ev
    /\ IF looper_status.state = LOOPER_STATE_TAP_TEMPO
          THEN LET r == taptempo_handle_event(ev, ub_div)
                   ls1 == taptempo_handle_button_event(r)
               IN  /\ ctx' = r.ctx
                   /\ latest_bpm' = r.latest_bpm
                   /\ div0' = (div0 \/ r.div0)
                   /\ tap_result' = r.result
                   /\ looper_status' = leave_tap_tempo(ls1, r.result)
                   /\ midi_out' = {}
                   /\ UNCHANGED <<tracks, quantized_step>>
          ELSE LET r == looper_handle_button_event(ev, ub_store)
               IN  /\ looper_status' = r.ls
                   /\ tracks' = r.tr
                   /\ quantized_step' = r.q
                   /\ midi_out' = r.out
                   /\ tap_result' = TAP_NONE
                   /\ UNCHANGED tap_vars

\* The ways the undefined operations of one dispatch can come out: one, unless
\* the dispatch stores outside the pattern or divides by zero.
DispatchOutcome(ev, u) ==
    IF looper_status.state = LOOPER_STATE_TAP_TEMPO
       THEN <<taptempo_handle_event(ev, u[2]), 0>>
       ELSE <<0, looper_handle_button_event(ev, u[1])>>

UBChoices(ev) ==
    {u \in StoreOutcomes \X DivOutcomes :
        \/ u = <<"layout", "zero">>
        \/ DispatchOutcome(ev, u) # DispatchOutcome(ev, <<"layout", "zero">>)}

\* History of the latest press: taken at BUTTON_EVENT_DOWN, whoever handles
\* it; only_clicks says that no release but CLICK_RELEASE has followed.
RecordPress(ev) ==
    press' = IF ev = BUTTON_EVENT_DOWN
                THEN [track |-> looper_status.current_track,
                      pattern |-> tracks[looper_status.current_track].pattern,
                      state |-> looper_status.state,
                      at |-> now,
                      only_clicks |-> TRUE]
             ELSE IF ev \in {BUTTON_EVENT_HOLD_RELEASE, BUTTON_EVENT_LONG_HOLD_RELEASE,
                             BUTTON_EVENT_VERY_LONG_HOLD_RELEASE}
                THEN [press EXCEPT !.only_clicks = FALSE]
             ELSE press

\* One iteration of main()'s loop: read the button, classify, dispatch.
main_loop ==
    LET d == bootsel_button_debounce(raw_button)
        p == button_poll_event(d.stable_state, now)
    IN  /\ counter' = d.counter
        /\ stable_state' = d.stable_state
        /\ fsm' = p.fsm
        /\ RecordPress(p.ev)
        /\ \E u \in UBChoices(p.ev) : main_dispatch(p.ev, u[1], u[2])

\* The step timer's callback, run at `now`, taking elapsed_us to run.
looper_handle_tick(elapsed_us) ==
    LET r == looper_process_state(now, now + elapsed_us)
    IN  /\ looper_status' = r.ls
        /\ tracks' = r.tr
        /\ midi_out' = r.out
        /\ step_timer' = now + elapsed_us + 1000 * r.delay
        /\ now' = now + elapsed_us
        /\ UNCHANGED quantized_step

\* packet_handler: the link comes up, or goes down.
packet_handler ==
    con_handle' = IF con_handle = HCI_CON_HANDLE_INVALID
                     THEN CON_HANDLE ELSE HCI_CON_HANDLE_INVALID

(***************************************************************************)
(* Spec: the program from boot.  The step timer fires when it is due; the  *)
(* main loop runs many times between two ticks, so the clock moves on only *)
(* after the loop has seen the button settle.  The button and the link     *)
(* change at multiples of ENV_PERIOD_US.                                   *)
(***************************************************************************)
MaxPresses == 2
MaxConnChanges == 2
MaxTimeMs == 4500

STEP_US == 1000 * (60000 \div (LOOPER_DEFAULT_BPM * LOOPER_STEPS_PER_BEAT))
ENV_PERIOD_US == 8 * STEP_US

InitStatus ==
    looper_update_bpm(
        [bpm |-> LOOPER_DEFAULT_BPM, step_duration_ms |-> 0,
         state |-> LOOPER_STATE_WAITING, current_track |-> 0, current_step |-> 0,
         recording_step_count |-> 0,
         timing |-> [last_step_time_us |-> 0, button_press_start_us |-> 0]],
        LOOPER_DEFAULT_BPM)

InitCtx == [state |-> TT_IDLE, stamp |-> [i \in 0 .. (TAP_MAX_TAPS - 1) |-> 0], count |-> 0]

InitFsm == [state |-> BUTTON_STATE_IDLE, press_start_us |-> 0]

\* The main loop is not inside looper_handle_button_event.
NoHandler == [pc |-> "idle", track |-> 0, start |-> FALSE, press_us |-> 0, last_us |-> 0]

NoReads == [level |-> FALSE, len |-> 0]

NoPress ==
    [track |-> 0, pattern |-> {}, state |-> LOOPER_STATE_WAITING, at |-> 0,
     only_clicks |-> FALSE]

Init ==
    /\ looper_status = InitStatus
    /\ tracks = [i \in Tracks |-> EmptyPatterns]
    /\ ctx = InitCtx
    /\ latest_bpm = LOOPER_DEFAULT_BPM
    /\ fsm = InitFsm
    /\ counter = 0
    /\ stable_state = FALSE
    /\ con_handle = HCI_CON_HANDLE_INVALID
    /\ step_timer = 1000 * InitStatus.step_duration_ms
    /\ now = 0
    /\ raw_button = FALSE
    /\ event = BUTTON_EVENT_NONE
    /\ tap_result = TAP_NONE
    /\ quantized_step = 0
    /\ midi_out = {}
    /\ div0 = FALSE
    /\ polled = FALSE
    /\ inputs = 0
    /\ conn_changes = 0
    /\ press = NoPress
    /\ taps = <<>>
    /\ handler = NoHandler
    /\ emitted = <<>>
    /\ reads = NoReads

Settled == counter = (IF raw_button THEN BUTTON_DEBOUNCE_COUNT ELSE 0)
EnvInstant == now % ENV_PERIOD_US = 0

\* The user presses or lets go of the button.
ButtonChange ==
    /\ EnvInstant
    /\ Settled
    /\ raw_button \/ inputs < MaxPresses
    /\ raw_button' = ~raw_button
    /\ inputs' = IF raw_button THEN inputs ELSE inputs + 1
    /\ polled' = FALSE
    /\ UNCHANGED <<engine_vars, tap_vars, button_vars, loop_vars, con_handle, step_timer,
                   now, conn_changes, press, taps, handler, poll_hist>>

\* The link comes up or goes down.
LinkChange ==
    /\ EnvInstant
    /\ conn_changes < MaxConnChanges
    /\ packet_handler
    /\ conn_changes' = conn_changes + 1
    /\ UNCHANGED <<engine_vars, tap_vars, button_vars, loop_vars, step_timer, now,
                   raw_button, polled, inputs, press, taps, handler, poll_hist>>

\* One iteration of the main loop.
MainLoop ==
    /\ main_loop
    /\ UNCHANGED <<con_handle, step_timer, now, raw_button, inputs, conn_changes, taps, handler, poll_hist>>
    /\ polled' = Settled'

\* The step timer fires.
Tick ==
    /\ now = step_timer
    /\ looper_handle_tick(0)
    /\ UNCHANGED <<tap_vars, button_vars, event, tap_result, con_handle, raw_button,
                   polled, inputs, conn_changes, press, taps, handler, poll_hist>>

NextInstant ==
    LET grid == STEP_US * ((now \div STEP_US) + 1)
    IN  IF step_timer < grid THEN step_timer ELSE grid

\* Time passes until the timer is due or the next instant of the grid.
Advance ==
    /\ polled
    /\ now < step_timer
    /\ NextInstant <= 1000 * MaxTimeMs
    /\ now' = NextInstant
    /\ polled' = FALSE
    /\ event' = BUTTON_EVENT_NONE
    /\ tap_result' = TAP_NONE
    /\ midi_out' = {}
    /\ UNCHANGED <<engine_vars, tap_vars, button_vars, con_handle, step_timer, raw_button,
                   inputs, conn_changes, press, taps, handler, poll_hist>>

Next == ButtonChange \/ LinkChange \/ MainLoop \/ Tick \/ Advance

Spec == Init /\ [][Next]_vars

(***************************************************************************)
(* Steps as seen from outside                                              *)
(***************************************************************************)
\* The step is a run of the tick handler: only it re-arms the step timer.
IsTick == step_timer' # step_timer

Connected == con_handle # HCI_CON_HANDLE_INVALID

\* The step is a main-loop iteration in which the classifier emits ev.
Emits(ev) == event' = ev /\ fsm' # fsm

\* ... and the engine, not the tap estimator, handles it.
EngineHandles(ev) == Emits(ev) /\ looper_status.state # LOOPER_STATE_TAP_TEMPO

(***************************************************************************)
(* Properties of the program from boot                                     *)
(***************************************************************************)
\* C2: current_step is always a step of the loop, 0 .. LOOPER_TOTAL_STEPS - 1,
\* and current_track always a track, 0 .. NUM_TRACKS - 1.
C2_StepAndTrackInRange ==
    /\ looper_status.current_step \in Steps
    /\ looper_status.current_track \in Tracks

\* The step has wrapped at the 32nd tick and the track has been switched.
C2_Witness ==
    /\ looper_status.current_step = 0
    /\ looper_status.timing.last_step_time_us = LOOPER_TOTAL_STEPS * STEP_US
    /\ looper_status.current_track = 1

\* C3 as stated: every tick leaves current_step at the step before it plus
\* one modulo LOOPER_TOTAL_STEPS, and last_step_time_us at the tick's start.
C3_EveryTickAdvancesByOne ==
    [][IsTick =>
          /\ looper_status'.current_step
                 = (looper_status.current_step + 1) % LOOPER_TOTAL_STEPS
          /\ looper_status'.timing.last_step_time_us = now]_vars

\* C3 as the code has it: a tick that starts in WAITING with the link up
\* first puts the step back to 0 and so leaves it at 1; every other tick
\* leaves it at the step before plus one modulo LOOPER_TOTAL_STEPS.  Every
\* tick leaves last_step_time_us at the tick's start.
C3_TickAdvancesOrRestarts ==
    [][IsTick =>
          /\ looper_status'.current_step
                 = IF looper_status.state = LOOPER_STATE_WAITING /\ Connected
                      THEN 1
                      ELSE (looper_status.current_step + 1) % LOOPER_TOTAL_STEPS
          /\ looper_status'.timing.last_step_time_us = now]_vars

\* The link came up after eight ticks; the ninth has restarted the loop.
C3_Witness ==
    /\ looper_status.state = LOOPER_STATE_PLAYING
    /\ looper_status.current_step = 1
    /\ looper_status.timing.last_step_time_us = 9 * STEP_US
    /\ now = 9 * STEP_US

\* C4: with the link up, a tick that starts in WAITING leaves the state
\* PLAYING, and a tick that starts in PLAYING leaves it PLAYING with
\* current_step advanced by one modulo LOOPER_TOTAL_STEPS.
C4_WaitingThenPlaying ==
    [][IsTick /\ Connected =>
          /\ looper_status.state = LOOPER_STATE_WAITING
                 => looper_status'.state = LOOPER_STATE_PLAYING
          /\ looper_status.state = LOOPER_STATE_PLAYING
                 => /\ looper_status'.state = LOOPER_STATE_PLAYING
                    /\ looper_status'.current_step
                           = (looper_status.current_step + 1) % LOOPER_TOTAL_STEPS]_vars

\* The link has been up since boot, the button never touched: 32 ticks on,
\* the looper plays and the step has come round to 0.
C4_Witness ==
    /\ inputs = 0
    /\ Connected
    /\ conn_changes = 1
    /\ looper_status.state = LOOPER_STATE_PLAYING
    /\ looper_status.current_step = 0
    /\ looper_status.timing.last_step_time_us = LOOPER_TOTAL_STEPS * STEP_US

\* C5: a recording starts with recording_step_count 0; each tick with the
\* link up counts one step and ends the recording (state PLAYING) exactly
\* when the count reaches LOOPER_TOTAL_STEPS, so the state is RECORDING
\* through the first 31 ticks and PLAYING from the 32nd; a CLICK_RELEASE
\* during the recording changes neither the count nor the state.
C5_RecordingLastsOneLoop ==
    [][/\ looper_status'.state = LOOPER_STATE_RECORDING
          => looper_status'.recording_step_count < LOOPER_TOTAL_STEPS
       /\ (IsTick /\ Connected /\ looper_status.state = LOOPER_STATE_RECORDING)
          => /\ looper_status'.recording_step_count
                   = looper_status.recording_step_count + 1
             /\ looper_status'.state =
                   IF looper_status.recording_step_count + 1 = LOOPER_TOTAL_STEPS
                      THEN LOOPER_STATE_PLAYING ELSE LOOPER_STATE_RECORDING
       /\ (/\ EngineHandles(BUTTON_EVENT_CLICK_RELEASE)
           /\ looper_status.state # LOOPER_STATE_RECORDING)
          => /\ looper_status'.state = LOOPER_STATE_RECORDING
             /\ looper_status'.recording_step_count = 0
       /\ (/\ EngineHandles(BUTTON_EVENT_CLICK_RELEASE)
           /\ looper_status.state = LOOPER_STATE_RECORDING)
          => /\ looper_status'.state = LOOPER_STATE_RECORDING
             /\ looper_status'.recording_step_count
                   = looper_status.recording_step_count]_vars

\* A click at boot started a recording, a second click fell into it, and
\* the 32nd tick has ended it.
C5_Witness ==
    /\ looper_status.state = LOOPER_STATE_PLAYING
    /\ looper_status.recording_step_count = LOOPER_TOTAL_STEPS
    /\ looper_status.timing.last_step_time_us = LOOPER_TOTAL_STEPS * STEP_US
    /\ Cardinality(tracks[0].pattern) = 2
    /\ inputs = 2

\* C31: whenever the state is RECORDING, recording_step_count is below
\* LOOPER_TOTAL_STEPS; the count never exceeds LOOPER_TOTAL_STEPS, so the
\* 8-bit counter never wraps; and every step that enters RECORDING leaves
\* the count 0.
C31_RecordingCountInRange ==
    /\ [](looper_status.state = LOOPER_STATE_RECORDING
             => looper_status.recording_step_count < LOOPER_TOTAL_STEPS)
    /\ [](looper_status.recording_step_count \in 0..LOOPER_TOTAL_STEPS)
    /\ [][(/\ looper_status.state # LOOPER_STATE_RECORDING
            /\ looper_status'.state = LOOPER_STATE_RECORDING)
              => looper_status'.recording_step_count = 0]_vars

\* One click started a recording and its 31st tick has just run: the state
\* is still RECORDING with the highest count it has there.
C31_Witness ==
    /\ inputs = 1
    /\ looper_status.state = LOOPER_STATE_RECORDING
    /\ looper_status.recording_step_count = LOOPER_TOTAL_STEPS - 1
    /\ looper_status.timing.last_step_time_us = now

\* A press is in progress before and after the step: its DOWN has been
\* emitted and its release has not.
DuringPress == fsm.state # BUTTON_STATE_IDLE /\ fsm'.state # BUTTON_STATE_IDLE

\* C32: between the DOWN and the release of a press the current track does
\* not change and no pattern is cleared, so a HOLD_RELEASE the engine
\* handles finds the track that was current at the DOWN of its press and
\* leaves that track's pattern as it was at that DOWN.
C32_HoldRestoresPressedTrack ==
    [][/\ DuringPress
          => /\ looper_status'.current_track = looper_status.current_track
             /\ \A i \in Tracks :
                   tracks[i].pattern # {} => tracks'[i].pattern # {}
       /\ EngineHandles(BUTTON_EVENT_HOLD_RELEASE)
          => /\ looper_status.current_track = press.track
             /\ tracks'[press.track].pattern = press.pattern]_vars

\* C33: every CLICK_RELEASE the engine handles ends a press whose DOWN the
\* engine handled too (the state was not TAP_TEMPO at that DOWN), so the
\* button_press_start_us it quantizes is the time of that DOWN.
C33_ClickBelongsToEnginePress ==
    [][EngineHandles(BUTTON_EVENT_CLICK_RELEASE)
          => /\ press.state # LOOPER_STATE_TAP_TEMPO
             /\ looper_status.timing.button_press_start_us = press.at]_vars

(***************************************************************************)
(* SpecQuant: looper_quantize_step over drawn inputs.  A CLICK_RELEASE is   *)
(* handled by the engine in a state whose step, tempo and press time are   *)
(* drawn: the press lies up to QuantMaxK steps before the last tick (a     *)
(* press the engine did not see since) or up to MaxStepsLate steps after   *)
(* it (the tempo went up while the timer was armed for the slower one).    *)
(***************************************************************************)
QuantMaxK == 40

StepMs(bpm) == 60000 \div (bpm * LOOPER_STEPS_PER_BEAT)
MaxStepsLate == StepMs(TAP_MIN_BPM) \div StepMs(TAP_MAX_BPM)
QuantT0 == 1000 * (QuantMaxK + 1) * StepMs(LOOPER_DEFAULT_BPM)
QuantKs == (-QuantMaxK) .. MaxStepsLate
QuantOffsets(ms) == {0, 500 * ms - 1, 500 * ms}

ModelDefaults ==
    /\ ctx = InitCtx
    /\ latest_bpm = LOOPER_DEFAULT_BPM
    /\ fsm = InitFsm
    /\ counter = 0
    /\ stable_state = FALSE
    /\ raw_button = FALSE
    /\ event = BUTTON_EVENT_NONE
    /\ tap_result = TAP_NONE
    /\ quantized_step = 0
    /\ midi_out = {}
    /\ div0 = FALSE
    /\ polled = FALSE
    /\ inputs = 0
    /\ conn_changes = 0
    /\ press = NoPress
    /\ taps = <<>>
    /\ handler = NoHandler
    /\ emitted = <<>>
    /\ reads = NoReads

InitQuant ==
    /\ ModelDefaults
    /\ \E bpm \in {LOOPER_DEFAULT_BPM, TAP_MAX_BPM}, cs \in Steps, k \in QuantKs,
          st \in {LOOPER_STATE_PLAYING, LOOPER_STATE_RECORDING} :
          \E e \in QuantOffsets(StepMs(bpm)) :
             /\ looper_status =
                   looper_update_bpm(
                       [InitStatus EXCEPT
                           !.state = st,
                           !.current_step = cs,
                           !.timing.last_step_time_us = QuantT0,
                           !.timing.button_press_start_us =
                               QuantT0 + 1000 * StepMs(bpm) * k + e],
                       bpm)
             /\ now = QuantT0 + 1000 * StepMs(bpm) * MaxStepsLate + e
             /\ step_timer = now
    /\ tracks = [i \in Tracks |-> EmptyPatterns]
    /\ con_handle = CON_HANDLE

\* The engine handles the CLICK_RELEASE of that press.
QuantClick ==
    /\ inputs = 0
    /\ inputs' = 1
    /\ \E u \in UBChoices(BUTTON_EVENT_CLICK_RELEASE) :
          main_dispatch(BUTTON_EVENT_CLICK_RELEASE, u[1], u[2])
    /\ UNCHANGED <<button_vars, con_handle, step_timer, now, raw_button, polled,
                   conn_changes, press, taps, handler, poll_hist>>

NextQuant == QuantClick

SpecQuant == InitQuant /\ [][NextQuant]_vars

\* C7: when the press began exactly k step durations from the last tick,
\* for any integer k, the step written is (previous_step + k) modulo
\* LOOPER_TOTAL_STEPS, previous_step being (current_step - 1) modulo
\* LOOPER_TOTAL_STEPS.
C7_ExactMultipleQuantizes ==
    event = BUTTON_EVENT_CLICK_RELEASE =>
        \A k \in QuantKs :
            (looper_status.timing.button_press_start_us
               = looper_status.timing.last_step_time_us
                    + k * 1000 * looper_status.step_duration_ms)
            => quantized_step
                  = (((looper_status.current_step - 1) % LOOPER_TOTAL_STEPS) + k)
                       % LOOPER_TOTAL_STEPS

\* The integer nearest to num / den, a half going away from zero.
Abs(x) == IF x < 0 THEN -x ELSE x
NearestAwayFromZero(num, den) ==
    CHOOSE r \in (-(QuantMaxK + 1)) .. (MaxStepsLate + 1) :
        \/ 2 * Abs(num - r * den) < den
        \/ 2 * Abs(num - r * den) = den /\ Abs(r * den) > Abs(num)

\* C27: the step written is (previous_step + r) modulo LOOPER_TOTAL_STEPS,
\* previous_step being (current_step - 1) modulo LOOPER_TOTAL_STEPS and r the
\* time from the last tick to the press in step durations, rounded to the
\* nearest integer with a half going away from zero.
C27_QuantizeRoundsToNearest ==
    event = BUTTON_EVENT_CLICK_RELEASE =>
        LET delta_us == looper_status.timing.button_press_start_us
                           - looper_status.timing.last_step_time_us
            r == NearestAwayFromZero(delta_us, 1000 * looper_status.step_duration_ms)
            previous_step == (looper_status.current_step - 1) % LOOPER_TOTAL_STEPS
        IN  quantized_step = (previous_step + r) % LOOPER_TOTAL_STEPS

\* The same for the presses for which previous_step + r is not below
\* -LOOPER_TOTAL_STEPS.
QuantizeRoundsToNearestInReach ==
    event = BUTTON_EVENT_CLICK_RELEASE =>
        LET delta_us == looper_status.timing.button_press_start_us
                           - looper_status.timing.last_step_time_us
            r == NearestAwayFromZero(delta_us, 1000 * looper_status.step_duration_ms)
            previous_step == (looper_status.current_step - 1) % LOOPER_TOTAL_STEPS
        IN  previous_step + r >= -LOOPER_TOTAL_STEPS
               => quantized_step = (previous_step + r) % LOOPER_TOTAL_STEPS

(***************************************************************************)
(* SpecEngine: the engine and the estimator under any order of events,     *)
(* ticks and link changes.  The run starts with a tick due, in a state     *)
(* drawn from those the program is in some time after boot: any looper     *)
(* state, the link up or down, filled patterns, and either the loop just   *)
(* begun on track 0 with the latest press QuantMaxK steps before the last  *)
(* tick, or the loop about to end on track 1 with the latest press one     *)
(* step before it.                                                         *)
(***************************************************************************)
MaxEngineEvents == 3
MaxEngineTicks == 2
MaxEngineLinks == 1

EngineEvents ==
    {BUTTON_EVENT_DOWN, BUTTON_EVENT_CLICK_RELEASE, BUTTON_EVENT_HOLD_RELEASE, BUTTON_EVENT_LONG_HOLD_RELEASE,
     BUTTON_EVENT_VERY_LONG_HOLD_RELEASE}

FilledPatterns == [i \in Tracks |-> [pattern |-> {i, 8 + i}, undo_pattern |-> {16}]]

InitEngine ==
    /\ ModelDefaults
    /\ \E st \in LooperStates,
          c \in {[ct |-> 0, cs |-> 1, k |-> QuantMaxK],
                 [ct |-> 1, cs |-> LOOPER_TOTAL_STEPS - 1, k |-> 1]} :
          looper_status =
              [InitStatus EXCEPT
                  !.state = st, !.current_track = c.ct, !.current_step = c.cs,
                  !.timing.last_step_time_us = QuantT0,
                  !.timing.button_press_start_us = QuantT0 - c.k * STEP_US]
    /\ tracks = FilledPatterns
    /\ con_handle \in {HCI_CON_HANDLE_INVALID, CON_HANDLE}
    /\ now = QuantT0 + STEP_US
    /\ step_timer = QuantT0 + STEP_US

\* The main loop handles one event.
EngineEvent ==
    /\ inputs < MaxEngineEvents
    /\ inputs' = inputs + 1
    /\ \E ev \in EngineEvents :
          /\ \E u \in UBChoices(ev) : main_dispatch(ev, u[1], u[2])
          /\ RecordPress(ev)
    /\ UNCHANGED <<button_vars, con_handle, step_timer, now, raw_button, polled,
                   conn_changes, taps, handler, poll_hist>>

EngineLink ==
    /\ conn_changes < MaxEngineLinks
    /\ packet_handler
    /\ conn_changes' = conn_changes + 1
    /\ UNCHANGED <<engine_vars, tap_vars, button_vars, loop_vars, step_timer, now,
                   raw_button, polled, inputs, press, taps, handler, poll_hist>>

\* Time passes until the step timer is due.
EngineAdvance ==
    /\ now < step_timer
    /\ step_timer <= QuantT0 + MaxEngineTicks * STEP_US
    /\ now' = step_timer
    /\ event' = BUTTON_EVENT_NONE
    /\ tap_result' = TAP_NONE
    /\ midi_out' = {}
    /\ UNCHANGED <<engine_vars, tap_vars, button_vars, con_handle, step_timer, raw_button,
                   polled, inputs, conn_changes, press, taps, handler, poll_hist>>

NextEngine == EngineEvent \/ EngineLink \/ Tick \/ EngineAdvance

SpecEngine == InitEngine /\ [][NextEngine]_vars

Max(a, b) == IF a >= b THEN a ELSE b

\* The step is one in which the engine handles the event ev.
EngineGets(ev) ==
    /\ inputs' # inputs
    /\ event' = ev
    /\ looper_status.state # LOOPER_STATE_TAP_TEMPO

\* C1: the index the engine writes into the pattern when it handles a
\* CLICK_RELEASE is always a step of the loop, 0 .. LOOPER_TOTAL_STEPS - 1.
C1_WrittenIndexInRange == quantized_step \in Steps

\* C6: a HOLD_RELEASE the engine handles after a DOWN it handled, with only
\* CLICK_RELEASE events and ticks between the two, leaves the pattern of the
\* track that was current at the DOWN as it was at the DOWN and the state
\* TRACK_SWITCH; the next tick (taken here with the link up) leaves the state
\* PLAYING and current_track one further modulo NUM_TRACKS.
C6_HoldReleaseRestoresPattern ==
    [][/\ (/\ EngineGets(BUTTON_EVENT_HOLD_RELEASE)
           /\ press.only_clicks
           /\ press.state # LOOPER_STATE_TAP_TEMPO)
          => /\ tracks'[press.track].pattern = press.pattern
             /\ looper_status'.state = LOOPER_STATE_TRACK_SWITCH
       /\ (IsTick /\ Connected /\ looper_status.state = LOOPER_STATE_TRACK_SWITCH)
          => /\ looper_status'.state = LOOPER_STATE_PLAYING
             /\ looper_status'.current_track
                   = (looper_status.current_track + 1) % NUM_TRACKS]_vars

\* C13: a tick that starts in PLAYING or RECORDING with the link up emits a
\* note for exactly the tracks whose pattern has the step that was current
\* before the tick, and a click exactly when that step is a multiple of
\* LOOPER_CLICK_DIV.
C13_EmissionRefersToStepBefore ==
    [][(/\ IsTick
        /\ Connected
        /\ looper_status.state \in {LOOPER_STATE_PLAYING, LOOPER_STATE_RECORDING})
          => midi_out' =
                {TrackNote(i) : i \in {t \in Tracks :
                                          looper_status.current_step \in tracks[t].pattern}}
                   \cup (IF looper_status.current_step % LOOPER_CLICK_DIV = 0
                            THEN {RIM_SHOT} ELSE {})]_vars

\* The tick of step 0 has sent the click and the note of track 0, whose
\* pattern has step 0, and nothing else.
C13_Witness ==
    /\ midi_out = {RIM_SHOT, BASS_DRUM}
    /\ looper_status.current_step = 1
    /\ looper_status.state = LOOPER_STATE_PLAYING
    /\ looper_status.timing.last_step_time_us = now
    /\ 0 \in tracks[0].pattern
    /\ \A i \in Tracks \ {0} : 0 \notin tracks[i].pattern

\* C14: step_duration_ms is always 60000 / (bpm * LOOPER_STEPS_PER_BEAT)
\* rounded toward zero and above 0, bpm always within 40 .. 240; a tick
\* re-arms the step timer from that step_duration_ms; bpm and
\* step_duration_ms change only on a TAP_PRELIM or TAP_FINAL result, to the
\* estimator's BPM.
C14_StepDurationFollowsBpm ==
    [][/\ looper_status'.bpm \in TAP_MIN_BPM .. TAP_MAX_BPM
       /\ looper_status'.step_duration_ms
             = 60000 \div (looper_status'.bpm * LOOPER_STEPS_PER_BEAT)
       /\ looper_status'.step_duration_ms > 0
       /\ IsTick =>
             step_timer' = now' + 1000 * Max(1, looper_status'.step_duration_ms
                                                   - ((now' - now) \div 1000))
       /\ (\/ looper_status'.bpm # looper_status.bpm
           \/ looper_status'.step_duration_ms # looper_status.step_duration_ms)
             => /\ tap_result' \in {TAP_PRELIM, TAP_FINAL}
                /\ looper_status'.bpm = latest_bpm']_vars

\* Taps have raised the tempo to 240 BPM and the tick after them has armed
\* the step timer with the step of that tempo.
C14_Witness ==
    /\ looper_status.bpm = TAP_MAX_BPM
    /\ looper_status.step_duration_ms = 62
    /\ looper_status.timing.last_step_time_us = now
    /\ step_timer = now + 62 * 1000

\* C15: a tick that starts in PLAYING or RECORDING with the link down emits
\* nothing, leaves the state WAITING and changes no pattern; a tick that
\* starts in WAITING with the link up again leaves the state PLAYING.
C15_LinkDownMeansWaiting ==
    [][/\ (/\ IsTick
           /\ ~Connected
           /\ looper_status.state \in {LOOPER_STATE_PLAYING, LOOPER_STATE_RECORDING})
          => /\ midi_out' = {}
             /\ looper_status'.state = LOOPER_STATE_WAITING
             /\ tracks' = tracks
       /\ (IsTick /\ Connected /\ looper_status.state = LOOPER_STATE_WAITING)
          => looper_status'.state = LOOPER_STATE_PLAYING]_vars

\* The one event so far was a DOWN in PLAYING at this instant; the tick
\* after it found the link down and has left the state WAITING.
C15_Witness ==
    /\ inputs = 1
    /\ press.state = LOOPER_STATE_PLAYING
    /\ press.at = now
    /\ looper_status.timing.last_step_time_us = now
    /\ looper_status.state = LOOPER_STATE_WAITING
    /\ ~Connected
    /\ midi_out = {}
    /\ \A i \in Tracks : tracks[i].pattern = FilledPatterns[i].pattern

\* C16 as stated: every tick that starts in TRACK_SWITCH moves to the next
\* track and ends in PLAYING, and a HOLD_RELEASE the engine handles leaves
\* the state TRACK_SWITCH for that tick.
C16_TickAlwaysSwitchesTrack ==
    [][/\ EngineGets(BUTTON_EVENT_HOLD_RELEASE)
          => looper_status'.state = LOOPER_STATE_TRACK_SWITCH
       /\ (IsTick /\ looper_status.state = LOOPER_STATE_TRACK_SWITCH)
          => /\ looper_status'.current_track = (looper_status.current_track + 1) % NUM_TRACKS
             /\ looper_status'.state = LOOPER_STATE_PLAYING]_vars

\* C16 amended: a tick that starts in TRACK_SWITCH moves to the next track
\* and ends in PLAYING when the link is up; with the link down it keeps the
\* track and ends in WAITING, so the switch is dropped.
C16_TickSwitchesTrackWhenConnected ==
    [][/\ EngineGets(BUTTON_EVENT_HOLD_RELEASE)
          => looper_status'.state = LOOPER_STATE_TRACK_SWITCH
       /\ (IsTick /\ looper_status.state = LOOPER_STATE_TRACK_SWITCH /\ Connected)
          => /\ looper_status'.current_track = (looper_status.current_track + 1) % NUM_TRACKS
             /\ looper_status'.state = LOOPER_STATE_PLAYING
       /\ (IsTick /\ looper_status.state = LOOPER_STATE_TRACK_SWITCH /\ ~Connected)
          => /\ looper_status'.current_track = looper_status.current_track
             /\ looper_status'.state = LOOPER_STATE_WAITING]_vars

\* The one event so far was a HOLD_RELEASE on track 1; the tick after it,
\* with the link up throughout, has moved to track 2.
C16_Witness ==
    /\ inputs = 1
    /\ event = BUTTON_EVENT_HOLD_RELEASE
    /\ conn_changes = 0
    /\ Connected
    /\ looper_status.timing.last_step_time_us = now
    /\ looper_status.state = LOOPER_STATE_PLAYING
    /\ looper_status.current_track = 2

\* C17 as stated: every tick that starts in CLEAR_ALL leaves every pattern
\* empty, the current track 0 and the state PLAYING, and a
\* VERY_LONG_HOLD_RELEASE the engine handles leaves the state CLEAR_ALL for
\* that tick.
C17_TickAlwaysClears ==
    [][/\ EngineGets(BUTTON_EVENT_VERY_LONG_HOLD_RELEASE)
          => looper_status'.state = LOOPER_STATE_CLEAR_ALL
       /\ (IsTick /\ looper_status.state = LOOPER_STATE_CLEAR_ALL)
          => /\ \A i \in Tracks : tracks'[i].pattern = {}
             /\ looper_status'.current_track = 0
             /\ looper_status'.state = LOOPER_STATE_PLAYING]_vars

\* C17 amended: a tick that starts in CLEAR_ALL leaves every pattern empty,
\* the current track 0 and the state PLAYING when the link is up; with the
\* link down it keeps every pattern and the track and ends in WAITING.
C17_TickClearsWhenConnected ==
    [][/\ EngineGets(BUTTON_EVENT_VERY_LONG_HOLD_RELEASE)
          => looper_status'.state = LOOPER_STATE_CLEAR_ALL
       /\ (IsTick /\ looper_status.state = LOOPER_STATE_CLEAR_ALL /\ Connected)
          => /\ \A i \in Tracks : tracks'[i].pattern = {}
             /\ looper_status'.current_track = 0
             /\ looper_status'.state = LOOPER_STATE_PLAYING
       /\ (IsTick /\ looper_status.state = LOOPER_STATE_CLEAR_ALL /\ ~Connected)
          => /\ tracks' = tracks
             /\ looper_status'.current_track = looper_status.current_track
             /\ looper_status'.state = LOOPER_STATE_WAITING]_vars

\* The one event so far was a VERY_LONG_HOLD_RELEASE on track 1; the tick
\* after it, with the link up throughout, has emptied every pattern.
C17_Witness ==
    /\ inputs = 1
    /\ event = BUTTON_EVENT_VERY_LONG_HOLD_RELEASE
    /\ conn_changes = 0
    /\ Connected
    /\ looper_status.timing.last_step_time_us = now
    /\ looper_status.state = LOOPER_STATE_PLAYING
    /\ looper_status.current_track = 0
    /\ \A i \in Tracks : tracks[i].pattern = {}

\* C18: a CLICK_RELEASE the engine handles outside RECORDING leaves the state
\* RECORDING, the recording step count 0 and the current track's pattern with
\* exactly the quantized step set; in RECORDING it adds the quantized step to
\* the current track's pattern and keeps the count; the other tracks'
\* patterns are unchanged in both cases.
C18_ClickRecordsQuantizedStep ==
    [][EngineGets(BUTTON_EVENT_CLICK_RELEASE)
          => LET t == looper_status.current_track
             IN  /\ looper_status'.state = LOOPER_STATE_RECORDING
                 /\ \A i \in Tracks \ {t} : tracks'[i].pattern = tracks[i].pattern
                 /\ IF looper_status.state # LOOPER_STATE_RECORDING
                       THEN /\ looper_status'.recording_step_count = 0
                            /\ tracks'[t].pattern = {quantized_step'}
                       ELSE /\ looper_status'.recording_step_count
                                  = looper_status.recording_step_count
                            /\ tracks'[t].pattern
                                  = tracks[t].pattern \cup {quantized_step'}]_vars

\* C21: in TAP_TEMPO with the link up a tick emits the click on the steps
\* that are multiples of LOOPER_CLICK_DIV and nothing else; a button event
\* received in TAP_TEMPO changes no track, nor current_track,
\* recording_step_count or button_press_start_us, and leaves the state
\* TAP_TEMPO, or PLAYING when the estimator returned TAP_EXIT.
C21_TapTempoOnlyClicksAndTaps ==
    [][/\ (IsTick /\ Connected /\ looper_status.state = LOOPER_STATE_TAP_TEMPO)
          => midi_out' = IF looper_status.current_step % LOOPER_CLICK_DIV = 0
                            THEN {RIM_SHOT} ELSE {}
       /\ (inputs' # inputs /\ looper_status.state = LOOPER_STATE_TAP_TEMPO)
          => /\ tracks' = tracks
             /\ looper_status'.current_track = looper_status.current_track
             /\ looper_status'.recording_step_count = looper_status.recording_step_count
             /\ looper_status'.timing.button_press_start_us
                   = looper_status.timing.button_press_start_us
             /\ \/ looper_status'.state = LOOPER_STATE_TAP_TEMPO /\ tap_result' # TAP_EXIT
                \/ looper_status'.state = LOOPER_STATE_PLAYING /\ tap_result' = TAP_EXIT]_vars

\* In TAP_TEMPO, after a DOWN given to the estimator, the tick of step 0,
\* which track 0 has in its pattern, has sent the click alone.
C21_Witness ==
    /\ looper_status.state = LOOPER_STATE_TAP_TEMPO
    /\ event = BUTTON_EVENT_DOWN
    /\ press.state = LOOPER_STATE_TAP_TEMPO
    /\ looper_status.current_step = 1
    /\ looper_status.timing.last_step_time_us = now
    /\ 0 \in tracks[0].pattern
    /\ midi_out = {RIM_SHOT}

\* C28 as stated: a pattern or undo pattern changes only while a button
\* event is handled or during a tick that starts in RECORDING; a tick that
\* starts in any other state leaves every track as it was.
C28_OnlyEventsAndRecordingTicks ==
    [][tracks' # tracks
          => \/ inputs' # inputs
             \/ IsTick /\ looper_status.state = LOOPER_STATE_RECORDING]_vars

\* C28 amended: a pattern or undo pattern changes only while a button event
\* is handled or during a tick that starts in CLEAR_ALL with the link up,
\* which empties every pattern and keeps the undo patterns; every other
\* tick, that of RECORDING included, leaves every track as it was.
C28_OnlyEventsAndClearingTicks ==
    [][tracks' # tracks
          => \/ inputs' # inputs
             \/ /\ IsTick
                /\ looper_status.state = LOOPER_STATE_CLEAR_ALL
                /\ Connected
                /\ \A i \in Tracks :
                      /\ tracks'[i].pattern = {}
                      /\ tracks'[i].undo_pattern = tracks[i].undo_pattern]_vars

\* No event has been handled and the first tick, which started in CLEAR_ALL,
\* has emptied the patterns and kept the undo patterns.
C28_Witness ==
    /\ inputs = 0
    /\ Connected
    /\ looper_status.timing.last_step_time_us = now
    /\ looper_status.state = LOOPER_STATE_PLAYING
    /\ \A i \in Tracks :
          /\ tracks[i].pattern = {}
          /\ tracks[i].undo_pattern = FilledPatterns[i].undo_pattern

\* C30: after every tick the looper state is WAITING, PLAYING, RECORDING or
\* TAP_TEMPO, never TRACK_SWITCH or CLEAR_ALL, and it is WAITING exactly when
\* the link was down at that tick.
C30_StatesAfterTick ==
    [][IsTick
          => /\ looper_status'.state \in
                    {LOOPER_STATE_WAITING, LOOPER_STATE_PLAYING,
                     LOOPER_STATE_RECORDING, LOOPER_STATE_TAP_TEMPO}
             /\ looper_status'.state = LOOPER_STATE_WAITING <=> ~Connected]_vars

\* No event has been handled and the link is up as it was at the start; the
\* first tick started in TRACK_SWITCH on track 1 and has left PLAYING.
C30_Witness ==
    /\ inputs = 0
    /\ conn_changes = 0
    /\ Connected
    /\ looper_status.timing.last_step_time_us = now
    /\ looper_status.state = LOOPER_STATE_PLAYING
    /\ looper_status.current_track = 2
    /\ midi_out = ble_midi_send_note(HAND_CLAP)

(***************************************************************************)
(* SpecFair: the engine as in SpecEngine under a fair timer: a due timer   *)
(* runs its handler, and time does not stop before an armed timer is due.  *)
(***************************************************************************)
MaxFairEvents == 1
MaxFairTicks == 2

FairHorizon == QuantT0 + MaxFairTicks * STEP_US

FairEvent ==
    /\ inputs < MaxFairEvents
    /\ inputs' = inputs + 1
    /\ \E ev \in EngineEvents :
          /\ \E u \in UBChoices(ev) : main_dispatch(ev, u[1], u[2])
          /\ RecordPress(ev)
    /\ UNCHANGED <<button_vars, con_handle, step_timer, now, raw_button, polled,
                   conn_changes, taps, handler, poll_hist>>

FairAdvance ==
    /\ now < step_timer
    /\ step_timer <= FairHorizon
    /\ now' = step_timer
    /\ event' = BUTTON_EVENT_NONE
    /\ tap_result' = TAP_NONE
    /\ midi_out' = {}
    /\ UNCHANGED <<engine_vars, tap_vars, button_vars, con_handle, step_timer, raw_button,
                   polled, inputs, conn_changes, press, taps, handler, poll_hist>>

NextFair == FairEvent \/ EngineLink \/ Tick \/ FairAdvance

SpecFair ==
    /\ InitEngine
    /\ [][NextFair]_vars
    /\ WF_vars(Tick)
    /\ WF_vars(FairAdvance)

TimerDue == now = step_timer
TimerArmed == now < step_timer

\* C29: every run of the tick handler, in every looper state and with the
\* link up or down, leaves the step timer armed for a later time; the timer
\* is never overdue; a due timer leads to a run of the handler, and an armed
\* timer, within the horizon, to a due one, whatever events and link changes
\* come between.
C29_TicksRecur ==
    /\ [][IsTick => step_timer' > now']_vars
    /\ [](now <= step_timer)
    /\ TimerDue ~> TimerArmed
    /\ (TimerArmed /\ step_timer <= FairHorizon) ~> TimerDue

\* The tick at the horizon has run after an event and a link change, with
\* the link down, and has armed the timer again.
C29_Witness ==
    /\ looper_status.timing.last_step_time_us = FairHorizon
    /\ now = FairHorizon
    /\ TimerArmed
    /\ inputs >= 1
    /\ conn_changes = 1
    /\ ~Connected

(***************************************************************************)
(* SpecIdle: as SpecEngine, with every event the classifier can return     *)
(* given to the main loop's dispatch.                                      *)
(***************************************************************************)
MaxIdleEvents == 2

IdleEvent ==
    /\ inputs < MaxIdleEvents
    /\ inputs' = inputs + 1
    /\ \E ev \in ButtonEvents :
          /\ \E u \in UBChoices(ev) : main_dispatch(ev, u[1], u[2])
          /\ RecordPress(ev)
    /\ UNCHANGED <<button_vars, con_handle, step_timer, now, raw_button, polled,
                   conn_changes, taps, handler, poll_hist>>

NextIdle == IdleEvent \/ EngineLink \/ Tick \/ EngineAdvance

SpecIdle == InitEngine /\ [][NextIdle]_vars

\* C26: BUTTON_EVENT_NONE and the three BEGIN events leave the looper status
\* (state, current_track, current_step, recording_step_count, bpm,
\* step_duration_ms, both timestamps) and every track's pattern and
\* undo_pattern as they were, in every looper state.
C26_BeginEventsChangeNothing ==
    [][(inputs' # inputs /\ event' \in {BUTTON_EVENT_NONE} \cup BeginEvents)
          => /\ looper_status' = looper_status
             /\ tracks' = tracks]_vars

\* The one event so far, a LONG_HOLD_BEGIN, was handled in TAP_TEMPO before
\* any tick.
C26_Witness ==
    /\ inputs = 1
    /\ event = BUTTON_EVENT_LONG_HOLD_BEGIN
    /\ looper_status.state = LOOPER_STATE_TAP_TEMPO
    /\ looper_status.timing.last_step_time_us = QuantT0
    /\ \A i \in Tracks : tracks[i] = FilledPatterns[i]

(***************************************************************************)
(* SpecPreempt: the step timer's callback runs in interrupt context and    *)
(* may come between any two statements of the main loop; nothing in the    *)
(* engine masks it.  The handling of a CLICK_RELEASE is taken statement by *)
(* statement; the tick handler itself runs to its end.                     *)
(***************************************************************************)
MaxPreemptClicks == 2
MaxPreemptTicks == 2

\* track = &tracks[current_track]; if (state != LOOPER_STATE_RECORDING)
ClickEnter ==
    /\ handler.pc = "idle"
    /\ inputs < MaxPreemptClicks
    /\ looper_status.state # LOOPER_STATE_TAP_TEMPO
    /\ inputs' = inputs + 1
    /\ event' = BUTTON_EVENT_CLICK_RELEASE
    /\ handler' = [pc |-> "entered", track |-> looper_status.current_track,
                   start |-> looper_status.state # LOOPER_STATE_RECORDING,
                   press_us |-> 0, last_us |-> 0]
    /\ UNCHANGED <<engine_vars, tap_vars, button_vars, tap_result, midi_out, con_handle,
                   step_timer, now, raw_button, polled, conn_changes, press, taps, poll_hist>>

\* { recording_step_count = 0; state = RECORDING; memset(track->pattern, 0, ...); }
ClickClear ==
    /\ handler.pc = "entered"
    /\ handler' = [handler EXCEPT !.pc = "cleared"]
    /\ looper_status' =
          IF handler.start
             THEN [looper_status EXCEPT !.recording_step_count = 0,
                                        !.state = LOOPER_STATE_RECORDING]
             ELSE looper_status
    /\ tracks' = IF handler.start THEN [tracks EXCEPT ![handler.track].pattern = {}]
                                  ELSE tracks
    /\ UNCHANGED <<quantized_step, tap_vars, button_vars, loop_vars, con_handle, step_timer,
                   now, raw_button, polled, inputs, conn_changes, press, taps, poll_hist>>

\* delta_us = button_press_start_us - last_step_time_us
ClickReadTimes ==
    /\ handler.pc = "cleared"
    /\ handler' = [handler EXCEPT
                      !.pc = "timed",
                      !.press_us = looper_status.timing.button_press_start_us,
                      !.last_us = looper_status.timing.last_step_time_us]
    /\ UNCHANGED <<engine_vars, tap_vars, button_vars, loop_vars, con_handle, step_timer,
                   now, raw_button, polled, inputs, conn_changes, press, taps, poll_hist>>

\* previous_step and estimated_step from current_step;
\* track->pattern[quantized_step] = true
ClickStore ==
    /\ handler.pc = "timed"
    /\ handler' = [handler EXCEPT !.pc = "idle"]
    /\ LET q == looper_quantize_step(
                    [looper_status EXCEPT
                        !.timing.button_press_start_us = handler.press_us,
                        !.timing.last_step_time_us = handler.last_us])
       IN  /\ quantized_step' = q
           /\ \E ub \in (IF q \in Steps THEN {"layout"} ELSE StoreOutcomes) :
                 tracks' = pattern_store(tracks, handler.track, q, ub)
    /\ UNCHANGED <<looper_status, tap_vars, button_vars, loop_vars, con_handle, step_timer,
                   now, raw_button, polled, inputs, conn_changes, press, taps, poll_hist>>

PreemptAdvance ==
    /\ handler.pc = "idle"
    /\ now < step_timer
    /\ step_timer <= QuantT0 + MaxPreemptTicks * STEP_US
    /\ now' = step_timer
    /\ event' = BUTTON_EVENT_NONE
    /\ midi_out' = {}
    /\ UNCHANGED <<engine_vars, tap_vars, button_vars, tap_result, con_handle, step_timer,
                   raw_button, polled, inputs, conn_changes, press, taps, handler, poll_hist>>

NextPreempt ==
    ClickEnter \/ ClickClear \/ ClickReadTimes \/ ClickStore \/ Tick \/ PreemptAdvance

SpecPreempt == InitEngine /\ [][NextPreempt]_vars

\* C12: no tick runs while the engine is handling a button event, and the
\* quantization of a CLICK_RELEASE computes from a current_step and a
\* last_step_time_us that the same tick wrote.
C12_ButtonEventAtomic ==
    [][/\ IsTick => handler.pc = "idle"
       /\ (handler.pc = "timed" /\ handler'.pc = "idle")
             => handler.last_us = looper_status.timing.last_step_time_us]_vars

(***************************************************************************)
(* SpecTimer: the tick handler with a run time.  The tempo, the looper     *)
(* state and the link are drawn; each tick takes one of TickRunTimes from  *)
(* its start to the moment it re-arms the step timer.                      *)
(***************************************************************************)
MaxTimerMs == 300

TimerBpms == {TAP_MIN_BPM, LOOPER_DEFAULT_BPM, 150, TAP_MAX_BPM}
TickRunTimes ==
    {0, 999, 1000, 30 * 1000, 62 * 1000, 100 * 1000 - 1, 100 * 1000, 150 * 1000,
     400 * 1000}

InitTimer ==
    /\ ModelDefaults
    /\ \E bpm \in TimerBpms, st \in LooperStates :
          looper_status =
              looper_update_bpm(
                  [InitStatus EXCEPT !.state = st,
                                     !.timing.last_step_time_us = QuantT0 - 1000 * StepMs(bpm)],
                  bpm)
    /\ tracks = FilledPatterns
    /\ con_handle \in {HCI_CON_HANDLE_INVALID, CON_HANDLE}
    /\ now = QuantT0
    /\ step_timer = QuantT0

\* The step timer fires and the handler takes some time to run.
TimerTick ==
    /\ now = step_timer
    /\ \E elapsed_us \in TickRunTimes : looper_handle_tick(elapsed_us)
    /\ UNCHANGED <<tap_vars, button_vars, event, tap_result, con_handle, raw_button,
                   polled, inputs, conn_changes, press, taps, handler, poll_hist>>

TimerAdvance ==
    /\ now < step_timer
    /\ step_timer <= QuantT0 + 1000 * MaxTimerMs
    /\ now' = step_timer
    /\ midi_out' = {}
    /\ UNCHANGED <<engine_vars, tap_vars, button_vars, event, tap_result, con_handle,
                   step_timer, raw_button, polled, inputs, conn_changes, press, taps, handler, poll_hist>>

NextTimer == TimerTick \/ TimerAdvance

SpecTimer == InitTimer /\ [][NextTimer]_vars

\* C11: every tick re-arms the step timer with a delay of
\* max(1, step_duration_ms - elapsed_ms) milliseconds, elapsed_ms the whole
\* milliseconds the tick took: 70 for 30 ms at a step of 100 ms, 1 for
\* 150 ms; the delay is never below 1.
C11_TimerDelayCompensates ==
    [][IsTick =>
          LET elapsed_ms == (now' - now) \div 1000
              delay == Max(1, looper_status'.step_duration_ms - elapsed_ms)
          IN  /\ step_timer' = now' + 1000 * delay
              /\ step_timer' >= now' + 1000
              /\ (looper_status'.step_duration_ms = 100 /\ elapsed_ms = 30)
                    => step_timer' = now' + 70 * 1000
              /\ (looper_status'.step_duration_ms = 100 /\ elapsed_ms = 150)
                    => step_timer' = now' + 1000]_vars

\* A tick at a step of 100 ms took 150 ms and the timer is due 1 ms later.
C11_Witness ==
    /\ looper_status.step_duration_ms = 100
    /\ now = looper_status.timing.last_step_time_us + 150 * 1000
    /\ step_timer = now + 1000

(***************************************************************************)
(* SpecButton: the main loop from boot under a button without bounce.  The *)
(* raw level changes once the debounced level has followed it, the loop    *)
(* polls as often or as seldom as it comes to at the instants of a grid,   *)
(* and the step timer ticks on.  emitted and reads keep what the polls     *)
(* returned and read.                                                      *)
(***************************************************************************)
MaxButtonFlips == 4
MaxButtonMs == 5500

POLL_PERIOD_US == 4 * STEP_US
PollInstant == now % POLL_PERIOD_US = 0

\* The raw level of the button changes.
ButtonFlip ==
    /\ PollInstant
    /\ Settled
    /\ inputs < MaxButtonFlips
    /\ inputs' = inputs + 1
    /\ raw_button' = ~raw_button
    /\ UNCHANGED <<engine_vars, tap_vars, button_vars, loop_vars, con_handle, step_timer,
                   now, polled, conn_changes, press, taps, handler, poll_hist>>

\* One iteration of the main loop, noted in the histories.
ButtonPoll ==
    /\ PollInstant
    /\ main_loop
    /\ polled' = TRUE
    /\ reads' = IF reads.len > 0 /\ reads.level = raw_button
                   THEN [reads EXCEPT !.len = IF @ < BUTTON_DEBOUNCE_COUNT
                                                THEN @ + 1 ELSE @]
                   ELSE [level |-> raw_button, len |-> 1]
    /\ emitted' = IF event' = BUTTON_EVENT_DOWN THEN <<event'>>
                  ELSE IF event' = BUTTON_EVENT_NONE THEN emitted
                  ELSE Append(emitted, event')
    /\ UNCHANGED <<con_handle, step_timer, now, raw_button, inputs, conn_changes, taps,
                   handler>>

\* Time passes until the step timer is due.
ButtonWait ==
    /\ now < step_timer
    /\ step_timer <= 1000 * MaxButtonMs
    /\ now' = step_timer
    /\ polled' = FALSE
    /\ event' = BUTTON_EVENT_NONE
    /\ tap_result' = TAP_NONE
    /\ midi_out' = {}
    /\ UNCHANGED <<engine_vars, tap_vars, button_vars, con_handle, step_timer, raw_button,
                   inputs, conn_changes, press, taps, handler, poll_hist>>

NextButton == ButtonFlip \/ ButtonPoll \/ Tick \/ ButtonWait

SpecButton == Init /\ [][NextButton]_vars

\* The release that belongs to the press whose latest event is e.
ReleaseAfter(e) ==
    CASE e = BUTTON_EVENT_DOWN -> BUTTON_EVENT_CLICK_RELEASE
      [] e = BUTTON_EVENT_HOLD_BEGIN -> BUTTON_EVENT_HOLD_RELEASE
      [] e = BUTTON_EVENT_LONG_HOLD_BEGIN -> BUTTON_EVENT_LONG_HOLD_RELEASE
      [] e = BUTTON_EVENT_VERY_LONG_HOLD_BEGIN -> BUTTON_EVENT_VERY_LONG_HOLD_RELEASE
      [] OTHER -> BUTTON_EVENT_NONE

\* The press whose events are es has been released.
Released(es) == es = <<>> \/ es[Len(es)] \in ReleaseEvents

\* es is a DOWN, then BEGIN events, then at most the release of the last of
\* them.
OnePress(es) ==
    \/ es = <<>>
    \/ /\ es[1] = BUTTON_EVENT_DOWN
       /\ \A i \in 2 .. Len(es) :
             \/ es[i] \in BeginEvents
             \/ es[i] = ReleaseAfter(es[i - 1]) /\ i = Len(es)

\* C22: a poll returns at most one event; the events of a press are one
\* DOWN, then BEGIN events, then one release before the next DOWN, the
\* release being that of the last BEGIN (CLICK_RELEASE when there was none);
\* the FSM is IDLE once the press is released, and it is IDLE whenever the
\* latest poll saw the debounced button up.
C22_PressIsDownBeginsRelease ==
    [][/\ Len(emitted') <= Len(emitted) + 1
       /\ OnePress(emitted')
       /\ (event' = BUTTON_EVENT_DOWN /\ emitted' # emitted) => Released(emitted)
       /\ (fsm'.state = BUTTON_STATE_IDLE) <=> Released(emitted')
       /\ (fsm'.state = BUTTON_STATE_IDLE) <=> ~stable_state']_vars

\* A press that went through every tier and was released, followed or not
\* by other polls.
C22_Witness ==
    emitted = <<BUTTON_EVENT_DOWN, BUTTON_EVENT_HOLD_BEGIN, BUTTON_EVENT_LONG_HOLD_BEGIN,
                BUTTON_EVENT_VERY_LONG_HOLD_BEGIN, BUTTON_EVENT_VERY_LONG_HOLD_RELEASE>>

\* The tier of a BEGIN event.
Tier(e) ==
    CASE e = BUTTON_EVENT_HOLD_BEGIN -> 1
      [] e = BUTTON_EVENT_LONG_HOLD_BEGIN -> 2
      [] e = BUTTON_EVENT_VERY_LONG_HOLD_BEGIN -> 3
      [] OTHER -> 0

\* The FSM goes from state a to state b.
FsmGoes(a, b) == fsm.state = a /\ fsm'.state = b

\* C23 as stated: while the button is held PRESS_DOWN is left only for
\* HOLD_ACTIVE, HOLD_ACTIVE only for LONG_HOLD_ACTIVE and LONG_HOLD_ACTIVE only
\* for VERY_LONG_HOLD_ACTIVE, and the BEGIN events of a press are HOLD_BEGIN,
\* LONG_HOLD_BEGIN, VERY_LONG_HOLD_BEGIN in this order with none left out.
C23_NoTierSkipped ==
    [][/\ (fsm'.state # fsm.state /\ fsm'.state # BUTTON_STATE_IDLE)
          => \/ FsmGoes(BUTTON_STATE_IDLE, BUTTON_STATE_PRESS_DOWN)
             \/ FsmGoes(BUTTON_STATE_PRESS_DOWN, BUTTON_STATE_HOLD_ACTIVE)
             \/ FsmGoes(BUTTON_STATE_HOLD_ACTIVE, BUTTON_STATE_LONG_HOLD_ACTIVE)
             \/ FsmGoes(BUTTON_STATE_LONG_HOLD_ACTIVE, BUTTON_STATE_VERY_LONG_HOLD_ACTIVE)
       /\ \A i \in 2 .. Len(emitted') :
             emitted'[i] \in BeginEvents => Tier(emitted'[i]) = i - 1]_vars

\* C23 amended: the BEGIN events of a press come in rising tiers and
\* VERY_LONG_HOLD_BEGIN only right after LONG_HOLD_BEGIN, but HOLD_BEGIN is
\* left out when the first poll that finds the press older than
\* PRESS_DURATION_US finds it older than LONG_PRESS_DURATION_US too: PRESS_DOWN
\* is then left for LONG_HOLD_ACTIVE with LONG_HOLD_BEGIN.
C23_OnlyHoldTierSkipped ==
    [][/\ (fsm'.state # fsm.state /\ fsm'.state # BUTTON_STATE_IDLE)
          => \/ FsmGoes(BUTTON_STATE_IDLE, BUTTON_STATE_PRESS_DOWN)
             \/ /\ FsmGoes(BUTTON_STATE_PRESS_DOWN, BUTTON_STATE_HOLD_ACTIVE)
                /\ now - fsm.press_start_us <= LONG_PRESS_DURATION_US
                /\ event' = BUTTON_EVENT_HOLD_BEGIN
             \/ /\ FsmGoes(BUTTON_STATE_PRESS_DOWN, BUTTON_STATE_LONG_HOLD_ACTIVE)
                /\ now - fsm.press_start_us > LONG_PRESS_DURATION_US
                /\ event' = BUTTON_EVENT_LONG_HOLD_BEGIN
             \/ /\ FsmGoes(BUTTON_STATE_HOLD_ACTIVE, BUTTON_STATE_LONG_HOLD_ACTIVE)
                /\ event' = BUTTON_EVENT_LONG_HOLD_BEGIN
             \/ /\ FsmGoes(BUTTON_STATE_LONG_HOLD_ACTIVE, BUTTON_STATE_VERY_LONG_HOLD_ACTIVE)
                /\ event' = BUTTON_EVENT_VERY_LONG_HOLD_BEGIN
       /\ \A i \in 2 .. Len(emitted') :
             emitted'[i] \in BeginEvents
                => IF i = 2 THEN Tier(emitted'[i]) \in {1, 2}
                            ELSE Tier(emitted'[i]) = Tier(emitted'[i - 1]) + 1]_vars

\* A press first polled again after more than LONG_PRESS_DURATION_US: no
\* HOLD_BEGIN, then the two BEGIN events above it.
C23_Witness ==
    /\ emitted = <<BUTTON_EVENT_DOWN, BUTTON_EVENT_LONG_HOLD_BEGIN,
                   BUTTON_EVENT_VERY_LONG_HOLD_BEGIN>>
    /\ fsm.state = BUTTON_STATE_VERY_LONG_HOLD_ACTIVE

\* The FSM state a held button is in before the tier of a duration, and the
\* state of that tier.
TierSteps ==
    {<<BUTTON_STATE_PRESS_DOWN, PRESS_DURATION_US, BUTTON_STATE_HOLD_ACTIVE,
       BUTTON_EVENT_HOLD_RELEASE>>,
     <<BUTTON_STATE_HOLD_ACTIVE, LONG_PRESS_DURATION_US, BUTTON_STATE_LONG_HOLD_ACTIVE,
       BUTTON_EVENT_LONG_HOLD_RELEASE>>,
     <<BUTTON_STATE_LONG_HOLD_ACTIVE, VERY_LONG_PRESS_DURATION_US,
       BUTTON_STATE_VERY_LONG_HOLD_ACTIVE, BUTTON_EVENT_VERY_LONG_HOLD_RELEASE>>}

MaxRawFlips == 4

\* The raw level of the button changes, settled or not.
RawFlip ==
    /\ inputs < MaxRawFlips
    /\ inputs' = inputs + 1
    /\ raw_button' = ~raw_button
    /\ UNCHANGED <<engine_vars, tap_vars, button_vars, loop_vars, con_handle, step_timer,
                   now, polled, conn_changes, press, taps, handler, poll_hist>>

NextDebounce == RawFlip \/ ButtonPoll

SpecDebounce == Init /\ [][NextDebounce]_vars

\* C25: the debounced level changes only at a read that is the
\* BUTTON_DEBOUNCE_COUNT-th in a row of the new level; a read of the other
\* level starts the run again.
C25_TenReadsInARow ==
    [][stable_state' # stable_state
          => /\ reads'.level = stable_state'
             /\ reads'.len >= BUTTON_DEBOUNCE_COUNT]_vars

(***************************************************************************)
(* SpecTap: the tap estimator from a freshly entered tap-tempo mode.  The  *)
(* main loop hands it events; between two of them time passes by one of    *)
(* TapGaps.                                                                *)
(***************************************************************************)
MaxTapInputs == 5
MaxTapTimeMs == 2000

TapT0 == 2 * LONG_PRESS_DURATION_US
TapGaps == {2 * 1000, 250 * 1000, 500 * 1000, 1100 * 1000}
TapEvents ==
    {BUTTON_EVENT_NONE, BUTTON_EVENT_CLICK_RELEASE, BUTTON_EVENT_HOLD_RELEASE,
     BUTTON_EVENT_LONG_HOLD_RELEASE}

InitTap ==
    /\ ModelDefaults
    /\ looper_status = [InitStatus EXCEPT !.state = LOOPER_STATE_TAP_TEMPO]
    /\ tracks = [i \in Tracks |-> EmptyPatterns]
    /\ con_handle = CON_HANDLE
    /\ now = TapT0
    /\ step_timer = TapT0

\* The main loop handles one event; a CLICK_RELEASE given to the estimator
\* is noted in taps.
TapEvent ==
    /\ ~polled
    /\ inputs < MaxTapInputs
    /\ inputs' = inputs + 1
    /\ \E ev \in TapEvents :
          /\ \E u \in UBChoices(ev) : main_dispatch(ev, u[1], u[2])
          /\ RecordPress(ev)
          /\ taps' = IF /\ looper_status.state = LOOPER_STATE_TAP_TEMPO
                        /\ ev = BUTTON_EVENT_CLICK_RELEASE
                        THEN Append(taps, now) ELSE taps
    /\ polled' = TRUE
    /\ UNCHANGED <<button_vars, con_handle, step_timer, now, raw_button, conn_changes,
                   handler, poll_hist>>

TapWait ==
    /\ polled
    /\ polled' = FALSE
    /\ \E d \in TapGaps :
          /\ now + d <= TapT0 + 1000 * MaxTapTimeMs
          /\ now' = now + d
    /\ event' = BUTTON_EVENT_NONE
    /\ tap_result' = TAP_NONE
    /\ midi_out' = {}
    /\ UNCHANGED <<engine_vars, tap_vars, button_vars, con_handle, step_timer,
                   raw_button, inputs, conn_changes, press, taps, handler, poll_hist>>

NextTap == TapEvent \/ TapWait

SpecTap == InitTap /\ [][NextTap]_vars

\* Every event so far was a tap given to the estimator, each 500 ms after
\* the one before.
OnlyTapsHalfASecondApart ==
    /\ inputs = Len(taps)
    /\ event = BUTTON_EVENT_CLICK_RELEASE
    /\ \A i \in 1 .. Len(taps) : taps[i] = taps[1] + (i - 1) * 500 * 1000
    /\ now = taps[Len(taps)]

\* C8: from a fresh tap-tempo mode, of four taps 500 ms apart the 2nd
\* returns TAP_PRELIM with 120 BPM, the 3rd and 4th return TAP_FINAL with
\* 120 BPM, the count is 0 after the 4th, the engine has the BPM of each
\* result and the state stays TAP_TEMPO.
C8_FourTapsAtHalfASecond ==
    (OnlyTapsHalfASecondApart /\ Len(taps) <= TAP_MAX_TAPS) =>
        /\ looper_status.state = LOOPER_STATE_TAP_TEMPO
        /\ Len(taps) = 2 => tap_result = TAP_PRELIM
        /\ Len(taps) \in {3, 4} => tap_result = TAP_FINAL
        /\ Len(taps) >= 2 => latest_bpm = 120 /\ looper_status.bpm = 120
        /\ Len(taps) = TAP_MAX_TAPS => ctx.count = 0

\* The estimator is called with ev in tap-tempo mode.
EstimatorGets(ev) ==
    /\ inputs' # inputs
    /\ event' = ev
    /\ looper_status.state = LOOPER_STATE_TAP_TEMPO

\* C19: a call of the estimator more than TIMEOUT_US after the latest tap
\* returns TAP_NONE, leaves the count 0 and computes no BPM; the tap after
\* that call starts a fresh sequence, so the tap that follows it within
\* TIMEOUT_US returns TAP_PRELIM.
C19_TimeoutStartsFreshSequence ==
    [][LET n == Len(taps)
       IN  /\ (/\ \/ EstimatorGets(BUTTON_EVENT_NONE)
                  \/ EstimatorGets(BUTTON_EVENT_CLICK_RELEASE)
               /\ n >= 1
               /\ now - taps[n] > TIMEOUT_US)
              => /\ tap_result' = TAP_NONE
                 /\ ctx'.count = 0
                 /\ latest_bpm' = latest_bpm
           /\ (/\ EstimatorGets(BUTTON_EVENT_CLICK_RELEASE)
               /\ inputs = n
               /\ n >= 3
               /\ taps[n - 1] - taps[n - 2] > TIMEOUT_US
               /\ now - taps[n] <= TIMEOUT_US)
              => tap_result' = TAP_PRELIM]_vars

\* The estimator is called with a HOLD_RELEASE or a LONG_HOLD_RELEASE.
EstimatorGetsExit ==
    \/ EstimatorGets(BUTTON_EVENT_HOLD_RELEASE)
    \/ EstimatorGets(BUTTON_EVENT_LONG_HOLD_RELEASE)

\* What leaving tap-tempo mode does outside the estimator's context: TAP_EXIT
\* is returned, the state goes to PLAYING and the track, the BPM and the
\* patterns stay.
LeavesForPlaying ==
    /\ tap_result' = TAP_EXIT
    /\ looper_status'.state = LOOPER_STATE_PLAYING
    /\ looper_status'.current_track = looper_status.current_track
    /\ looper_status'.bpm = looper_status.bpm
    /\ tracks' = tracks

\* C20 as stated: in tap-tempo mode a HOLD_RELEASE or LONG_HOLD_RELEASE
\* returns TAP_EXIT and leaves the context in TT_IDLE with count 0, and the
\* engine goes to PLAYING with the track, the BPM and the patterns unchanged.
C20_ExitEmptiesContext ==
    [][EstimatorGetsExit
          => /\ LeavesForPlaying
             /\ ctx'.state = TT_IDLE
             /\ ctx'.count = 0]_vars

\* C20 amended: in tap-tempo mode a HOLD_RELEASE or LONG_HOLD_RELEASE returns
\* TAP_EXIT and leaves the context in TT_IDLE with the count and the stamps
\* it had, and the engine goes to PLAYING with the track, the BPM and the
\* patterns unchanged; the tap that next leaves TT_IDLE leaves the count 0.
C20_ExitIdlesContext ==
    [][/\ EstimatorGetsExit
          => /\ LeavesForPlaying
             /\ ctx' = [ctx EXCEPT !.state = TT_IDLE]
       /\ (EstimatorGets(BUTTON_EVENT_CLICK_RELEASE) /\ ctx.state = TT_IDLE)
          => ctx'.count = 0]_vars

\* Tap-tempo mode has been left with two taps counted.
C20_Witness ==
    /\ tap_result = TAP_EXIT
    /\ event \in {BUTTON_EVENT_HOLD_RELEASE, BUTTON_EVENT_LONG_HOLD_RELEASE}
    /\ looper_status.state = LOOPER_STATE_PLAYING
    /\ ctx.state = TT_IDLE
    /\ ctx.count = 2

(***************************************************************************)
(* SpecBpm: calc_bpm over drawn inputs.  The estimator holds a collection  *)
(* of 2 to TAP_MAX_TAPS stamps, drawn, and computes the BPM from its first *)
(* and latest stamp as taptempo_handle_event does.                         *)
(***************************************************************************)
BpmMaxSteps == 40

BpmDeltas ==
    {0, 1, 300, 499, 500, 501, 1499, 1500}
        \cup {STEP_US * j + e : j \in 1 .. BpmMaxSteps, e \in {0, 499, 500}}

InitBpm ==
    /\ fsm = InitFsm
    /\ counter = 0
    /\ stable_state = FALSE
    /\ raw_button = FALSE
    /\ event = BUTTON_EVENT_NONE
    /\ tap_result = TAP_NONE
    /\ quantized_step = 0
    /\ midi_out = {}
    /\ div0 = FALSE
    /\ polled = FALSE
    /\ inputs = 0
    /\ conn_changes = 0
    /\ press = NoPress
    /\ taps = <<>>
    /\ handler = NoHandler
    /\ emitted = <<>>
    /\ reads = NoReads
    /\ latest_bpm = LOOPER_DEFAULT_BPM
    /\ looper_status = [InitStatus EXCEPT !.state = LOOPER_STATE_TAP_TEMPO]
    /\ tracks = [i \in Tracks |-> EmptyPatterns]
    /\ con_handle = CON_HANDLE
    /\ \E n \in 2 .. TAP_MAX_TAPS, d \in BpmDeltas :
          /\ ctx = [state |-> TT_COLLECT,
                    stamp |-> [i \in 0 .. (TAP_MAX_TAPS - 1) |->
                                  IF i = 0 THEN TapT0
                                  ELSE IF i < n THEN TapT0 + d ELSE 0],
                    count |-> n]
          /\ now = TapT0 + d
          /\ step_timer = TapT0 + d

\* if (ctx.count >= 2) latest_bpm = calc_bpm(...), and the result returned.
BpmCompute ==
    /\ inputs = 0
    /\ inputs' = 1
    /\ \E ub \in DivOutcomes :
          latest_bpm' = calc_bpm(ctx.stamp[0], ctx.stamp[ctx.count - 1], ctx.count - 1, ub)
    /\ div0' = calc_bpm_divides_by_zero(ctx.stamp[0], ctx.stamp[ctx.count - 1])
    /\ tap_result' = IF ctx.count = 2 THEN TAP_PRELIM ELSE TAP_FINAL
    /\ event' = BUTTON_EVENT_CLICK_RELEASE
    /\ UNCHANGED <<engine_vars, ctx, button_vars, con_handle, step_timer, now, raw_button,
                   midi_out, polled, conn_changes, press, taps, handler, poll_hist>>

NextBpm == BpmCompute

SpecBpm == InitBpm /\ [][NextBpm]_vars

\* The BPM the formula gives for the interval first_us .. last_us: the
\* nearest integer to 60000 * intervals / elapsed_ms, within
\* TAP_MIN_BPM .. TAP_MAX_BPM; TAP_MAX_BPM for an interval shorter than that
\* of TAP_MAX_BPM, TAP_MIN_BPM for one longer than that of TAP_MIN_BPM and
\* for one of no length.
NearestBpm(first_us, last_us, intervals) ==
    LET us == last_us - first_us
        ms == (us + 500) \div 1000
        a == 60000 * intervals
        exact == {b \in TAP_MIN_BPM .. TAP_MAX_BPM :
                     2 * b * ms - ms <= 2 * a /\ 2 * a < 2 * b * ms + ms}
    IN  IF us = 0 THEN TAP_MIN_BPM
        ELSE IF 60000 * 1000 * intervals > TAP_MAX_BPM * us THEN TAP_MAX_BPM
        ELSE IF 60000 * 1000 * intervals < TAP_MIN_BPM * us THEN TAP_MIN_BPM
        ELSE CHOOSE b \in exact : TRUE

\* C9: a BPM the estimator reports is the nearest integer to
\* 60000 * (count - 1) / elapsed_ms within 40 .. 240, elapsed between the
\* first and the latest stamp of the collection: 240 for an interval of more
\* than 240 BPM, 40 for one of less than 40 BPM; and the estimator's BPM is
\* always within 40 .. 240.
C9_ReportedBpmIsClampedNearest ==
    /\ latest_bpm \in TAP_MIN_BPM .. TAP_MAX_BPM
    /\ tap_result \in {TAP_PRELIM, TAP_FINAL} =>
          latest_bpm = NearestBpm(ctx.stamp[0], ctx.stamp[ctx.count - 1], ctx.count - 1)

\* C10: the BPM computation never divides by zero: it yields a BPM for every
\* pair of stamps first <= last with 1 to 3 intervals, TAP_MIN_BPM when the
\* two are the same.
C10_NeverDividesByZero ==
    /\ ~div0
    /\ (tap_result # TAP_NONE /\ ctx.stamp[ctx.count - 1] = ctx.stamp[0])
          => latest_bpm = TAP_MIN_BPM

====
